---- MODULE Spec2Model ----
(***************************************************************************)
(* OneStrike: router, middleware composition, dispatcher and the context   *)
(* write helpers, as a state machine.                                      *)
(*                                                                         *)
(* Strings whose characters matter (methods aside: route patterns, request *)
(* paths, conditional-middleware patterns, group prefixes) are sequences   *)
(* of one-character strings, so that strings.Split, strings.HasPrefix and  *)
(* strings.TrimSuffix are computed as the library computes them.  Opaque   *)
(* strings (messages, header values, middleware and handler identities)    *)
(* are TLA+ strings.                                                       *)
(***************************************************************************)
EXTENDS Integers, Sequences, FiniteSets, TLC

VARIABLES
    routes,                 \* Router.routes: sequence of route records
    middlewares,            \* Server.middlewares: global middleware list
    conditionalMiddleware,  \* Server.conditionalMiddleware
    groups,                 \* the Group values created by Server.Group
    regLog,                 \* history: how each route of `routes` was registered
    reqs,                   \* one record per request slot: context, writer, control
    lookup                  \* result of the last direct Router.FindHandler call

vars == <<routes, middlewares, conditionalMiddleware, groups, regLog, reqs, lookup>>

serverVars == <<routes, middlewares, conditionalMiddleware, groups, regLog>>

(***************************************************************************)
(* Bounds of the model.                                                    *)
(***************************************************************************)
MaxRoutes == 2

MaxMw == 2

MaxCond == 2

MaxGroupMw == 1

MaxCalls == 2


(***************************************************************************)
(* Character strings.                                                      *)
(***************************************************************************)
S_u      == <<"/", "u">>
S_uSlash == <<"/", "u", "/">>
S_uParam == <<"/", "u", "/", ":", "i">>
S_uX     == <<"/", "u", "/", "x">>
S_u1     == <<"/", "u", "/", "1">>
S_u1X    == <<"/", "u", "/", "1", "/", "x">>
S_v      == <<"/", "v">>
S_dup    == <<"/", ":", "i", "/", ":", "i">>
S_param  == <<"/", ":", "i">>
S_g      == <<"/", "g">>
S_gNoSlash == <<"g">>
S_gu     == <<"/", "g", "/", "u">>
S_uStar  == <<"/", "u", "/", "*">>
S_all    == <<"/", "*">>

\* strings.HasPrefix(s, prefix)
HasPrefix(s, prefix) ==
    /\ Len(prefix) <= Len(s)
    /\ SubSeq(s, 1, Len(prefix)) = prefix

\* strings.TrimSuffix(s, suffix)
TrimSuffix(s, suffix) ==
    IF /\ Len(suffix) <= Len(s)
       /\ SubSeq(s, Len(s) - Len(suffix) + 1, Len(s)) = suffix
    THEN SubSeq(s, 1, Len(s) - Len(suffix))
    ELSE s

\* strings.Split(s, "/"): the segments between the separators; a string
\* without separator (the empty string included) gives one segment.
RECURSIVE Split(_)
Split(s) ==
    IF \A i \in 1..Len(s) : s[i] # "/"
    THEN <<s>>
    ELSE LET k == CHOOSE i \in 1..Len(s) :
                      /\ s[i] = "/"
                      /\ \A j \in 1..(i - 1) : s[j] # "/"
         IN  <<SubSeq(s, 1, k - 1)>> \o Split(SubSeq(s, k + 1, Len(s)))

(***************************************************************************)
(* Handlers.  A HandlerFunc is a closure: the terminal handler wrapped by  *)
(* middleware layers.  It is represented by its layers, outermost first,   *)
(* and the terminal handler's identity.                                    *)
(***************************************************************************)
NilHandler == [isNil |-> TRUE, layers |-> <<>>, term |-> "nil"]

Terminal(h) == [isNil |-> FALSE, layers |-> <<>>, term |-> h]

\* mw(next): the handler that runs mw around next.
Wrap(mw, next) == [next EXCEPT !.layers = <<mw>> \o @]

(***************************************************************************)
(* Router                                                                  *)
(***************************************************************************)
\* map[string]string: nil map, or a function from names to values.  A map is
\* a reference: ref names the map made by make, 0 before a dispatch holds it,
\* and two contexts with the same ref hold the same map.
NilParams == [isNil |-> TRUE, m |-> <<>>, ref |-> 0]

MakeParams == [isNil |-> FALSE, m |-> <<>>, ref |-> 0]

\* params[k] = v
Put(m, k, v) == [x \in (DOMAIN m) \cup {k} |-> IF x = k THEN v ELSE m[x]]

\* rtParts[i][1:]
ParamNameKeepsColon(seg) == seg

ParamName(seg) == Tail(seg)

\* the segment loop of FindHandler: [match, params]
RECURSIVE CheckSegments(_, _, _, _)
CheckSegments(rtParts, pParts, i, params) ==
    IF i > Len(rtParts)
    THEN [match |-> TRUE, params |-> params]
    ELSE IF HasPrefix(rtParts[i], <<":">>)
         THEN CheckSegments(rtParts, pParts, i + 1,
                            Put(params, ParamName(rtParts[i]), pParts[i]))
         ELSE IF rtParts[i] # pParts[i]
              THEN [match |-> FALSE, params |-> params]
              ELSE CheckSegments(rtParts, pParts, i + 1, params)

\* "Length mismatch -> no match"
LengthMismatchIgnored(rtParts, pParts) == Len(rtParts) > Len(pParts)

LengthMismatch(rtParts, pParts) == Len(rtParts) # Len(pParts)

\* "No matching route found": return nil, nil
NoMatchEmptyParams == [Handler |-> NilHandler, Params |-> MakeParams]

NoMatch == [Handler |-> NilHandler, Params |-> NilParams]

\* the route loop of FindHandler, from route i on
RECURSIVE ScanRoutes(_, _, _, _)
ScanRoutes(rs, i, method, path) ==
    IF i > Len(rs)
    THEN NoMatch
    ELSE LET rt      == rs[i]
             rtParts == Split(rt.Path)
             pParts  == Split(path)
         IN  IF rt.Method # method
             THEN ScanRoutes(rs, i + 1, method, path)
             ELSE IF LengthMismatch(rtParts, pParts)
                  THEN ScanRoutes(rs, i + 1, method, path)
                  ELSE LET r == CheckSegments(rtParts, pParts, 1, MakeParams.m)
                       IN  IF r.match
                           THEN [Handler |-> rt.Handler,
                                 Params  |-> [isNil |-> FALSE, m |-> r.params, ref |-> 0]]
                           ELSE ScanRoutes(rs, i + 1, method, path)

\* a scan that keeps the last matching route instead of the first
RECURSIVE ScanRoutesLast(_, _, _, _)
ScanRoutesLast(rs, i, method, path) ==
    IF i < 1
    THEN NoMatch
    ELSE LET one == ScanRoutes(<<rs[i]>>, 1, method, path)
         IN  IF one.Handler.isNil
             THEN ScanRoutesLast(rs, i - 1, method, path)
             ELSE one

FindHandlerLastWins(rs, method, path) == ScanRoutesLast(rs, Len(rs), method, path)

\* a lookup that does not compare the method
FindHandlerAnyMethod(rs, method, path) ==
    ScanRoutes([k \in 1..Len(rs) |-> [rs[k] EXCEPT !.Method = method]], 1, method, path)

FindHandler(rs, method, path) == ScanRoutes(rs, 1, method, path)

(***************************************************************************)
(* Response envelope                                                       *)
(***************************************************************************)
\* Details is `any`, here a sequence of strings; NoDetails is the nil
\* interface value.
NoDetails == <<"<nil>">>

\* the nil *Response
NilResponse ==
    [isNil |-> TRUE, Success |-> FALSE, Message |-> "", Details |-> NoDetails, Code |-> 0]

\* &Response{Success, Message, Details, Code}
Response(success, message, details, code) ==
    [isNil |-> FALSE, Success |-> success, Message |-> message,
     Details |-> details, Code |-> code]

(***************************************************************************)
(* http.ResponseWriter, as the helpers and the dispatcher use it.          *)
(*   header : the live header map (Header()), "" for an absent key         *)
(*   cookies: the Set-Cookie values added by http.SetCookie                *)
(*   wroteHeader, Code: the committed status line                          *)
(*   sent   : the header map as it stood when the status was committed     *)
(*   Body   : the chunks written, in order                                 *)
(***************************************************************************)
HeaderNames ==
    {"Content-Type", "Location", "X-Content-Type-Options",
     "Access-Control-Allow-Origin", "Access-Control-Allow-Methods",
     "Access-Control-Allow-Headers", "Access-Control-Allow-Credentials",
     "X-A", "X-B", "X-C"}

NoHeaders == [k \in HeaderNames |-> ""]

\* httptest.NewRecorder()
NewRecorder ==
    [header |-> NoHeaders, cookies |-> <<>>, wroteHeader |-> FALSE, Code |-> 0,
     sent |-> [header |-> NoHeaders, cookies |-> <<>>], Body |-> <<>>]

\* w.Header().Set(k, v)
HeaderSet(w, k, v) == [w EXCEPT !.header[k] = v]

\* http.SetCookie(w, cookie)
SetCookie(w, value) == [w EXCEPT !.cookies = Append(@, value)]

\* w.WriteHeader(code): only the first call commits the status and headers
WriteHeader(w, code) ==
    IF w.wroteHeader
    THEN w
    ELSE [w EXCEPT !.wroteHeader = TRUE, !.Code = code,
                   !.sent = [header |-> w.header, cookies |-> w.cookies]]

\* w.Write(chunk): commits 200 when no status was written yet
Write(w, chunk) ==
    LET w1 == IF w.wroteHeader THEN w ELSE WriteHeader(w, 200)
    IN  [w1 EXCEPT !.Body = Append(@, chunk)]

\* a body of raw bytes
Text(s) == << <<"text", s>> >>

\* json.NewEncoder(w).Encode(resp): the envelope's keys, details omitted
\* when nil (`json:"details,omitempty"`)
EncodeJSON(resp) ==
    << <<"success", IF resp.Success THEN "true" ELSE "false">>,
       <<"message", resp.Message>> >>
    \o (IF resp.Details = NoDetails THEN <<>> ELSE << <<"details", ToString(resp.Details)>> >>)
    \o << <<"code", ToString(resp.Code)>> >>

\* http.Error(w, msg, code) / http.NotFound(w, r)
HttpError(w, msg, code) ==
    Write(WriteHeader(HeaderSet(HeaderSet(w, "Content-Type", "text/plain; charset=utf-8"),
                                "X-Content-Type-Options", "nosniff"),
                      code),
          Text(msg))

(***************************************************************************)
(* Request and Context                                                     *)
(***************************************************************************)
NoToken == <<>>

\* *http.Request: method, path and the headers the middlewares read; the
\* Content-Type header and the body are empty unless a binder test sets them
Request(method, path, auth, accept, origin, csrfHeader, csrfCookie) ==
    [Method |-> method, Path |-> path, Authorization |-> auth, Accept |-> accept,
     Origin |-> origin, CsrfHeader |-> csrfHeader, CsrfCookie |-> csrfCookie,
     ContentType |-> "", Body |-> ""]

NoRequest == Request("", <<>>, "", "", "", NoToken, NoToken)

\* &server.Context{Writer: w, Request: r}
NewContext(w, r) ==
    [Writer |-> w, Request |-> r, Params |-> NilParams, Handled |-> FALSE]

\* a FindHandler whose calls all fill one map
NewMapShared(rid) == 1

\* params := make(map[string]string) in the FindHandler call of the dispatch
\* of slot rid: a map no other call holds
NewMap(rid) == rid

\* the map FindHandler returned to the dispatch of slot rid
Returned(params, rid) ==
    IF params.isNil THEN params ELSE [params EXCEPT !.ref = NewMap(rid)]

\* c.Params = params
BindParamsForgotten(c, params) == c

BindParams(c, params) == [c EXCEPT !.Params = params]

\* the result of a helper: the context after the call and the value returned
Result(c, resp) == [c |-> c, resp |-> resp]

(***************************************************************************)
(* Context write helpers                                                   *)
(***************************************************************************)
writeResponse(c, code, contentType, body) ==
    IF c.Handled
    THEN c
    ELSE [c EXCEPT !.Writer = Write(WriteHeader(HeaderSet(@, "Content-Type", contentType),
                                                code),
                                    body),
                   !.Handled = TRUE]

String(c, code, s) ==
    Result(writeResponse(c, code, "text/plain", Text(s)),
           Response(TRUE, s, NoDetails, code))

HTML(c, code, html) ==
    Result(writeResponse(c, code, "text/html", Text(html)),
           Response(TRUE, "HTML written", NoDetails, code))

Blob(c, code, data, contentType) ==
    Result(writeResponse(c, code, contentType, Text(data)),
           Response(TRUE, "Blob written", NoDetails, code))

JSON(c, success, message, details, code) ==
    LET resp == Response(success, message, details, code)
    IN  IF c.Handled
        THEN Result(c, resp)
        ELSE Result([c EXCEPT !.Writer = Write(WriteHeader(HeaderSet(@, "Content-Type",
                                                                     "application/json"),
                                                           code),
                                               EncodeJSON(resp)),
                              !.Handled = TRUE],
                    resp)

ErrorJSON(c, message, details, code) ==
    LET resp == Response(FALSE, message, details, code)
    IN  IF c.Handled
        THEN Result(c, resp)
        ELSE Result([c EXCEPT !.Writer = Write(WriteHeader(HeaderSet(@, "Content-Type",
                                                                     "application/json"),
                                                           code),
                                               EncodeJSON(resp)),
                              !.Handled = TRUE],
                    resp)

Redirect(c, code, location) ==
    IF c.Handled
    THEN Result(c, Response(FALSE, "Response already handled", NoDetails, code))
    ELSE Result([c EXCEPT !.Writer = WriteHeader(HeaderSet(@, "Location", location), code),
                          !.Handled = TRUE],
                Response(TRUE, "Redirected to " \o location, NoDetails, code))

\* http.DetectContentType(data)
DetectContentType(data) == "text/plain; charset=utf-8"

\* File(filePath); readable: whether os.ReadFile succeeds, data: what it reads
File(c, readable, data) ==
    IF c.Handled
    THEN Result(c, Response(FALSE, "Response already handled", NoDetails, 500))
    ELSE IF ~readable
         THEN Result(c, Response(FALSE, "File not found", NoDetails, 404))
         ELSE Result(writeResponse(c, 200, DetectContentType(data), Text(data)),
                     Response(TRUE, "Served file", NoDetails, 200))

\* Render(renderer, code, name, data); failed: whether the template's
\* execution returns an error, output: what it wrote to the writer before
\* returning (nothing when output = "")
Render(c, code, name, failed, output) ==
    IF c.Handled
    THEN Result(c, Response(FALSE, "Response already handled", NoDetails, code))
    ELSE LET w1 == WriteHeader(HeaderSet(c.Writer, "Content-Type",
                                         "text/html; charset=utf-8"), code)
             w2 == IF output = "" THEN w1 ELSE Write(w1, Text(output))
         IN  IF failed
             THEN Result([c EXCEPT !.Writer = HttpError(w2, "Template error", 500)],
                         Response(FALSE, "Template render error", NoDetails, 500))
             ELSE Result([c EXCEPT !.Writer = w2, !.Handled = TRUE],
                         Response(TRUE, "Template rendered: " \o name, NoDetails, code))

(***************************************************************************)
(* Middleware composition at registration                                  *)
(***************************************************************************)
\* for i := 0; i < len(mws); i++ { combined = mws[i](combined) }
RECURSIVE WrapAllForward(_, _, _)
WrapAllForward(mws, i, combined) ==
    IF i < 1
    THEN combined
    ELSE Wrap(mws[i], WrapAllForward(mws, i - 1, combined))

\* for i := len(mws) - 1; i >= 0; i-- { combined = mws[i](combined) },
\* entered at index i (1-based here)
RECURSIVE WrapAll(_, _, _)
WrapAll(mws, i, combined) ==
    IF i < 1
    THEN combined
    ELSE WrapAll(mws, i - 1, Wrap(mws[i], combined))

\* the body of Server.Handle before the router call
ServerCombined(smws, handler) == WrapAll(smws, Len(smws), handler)

\* a composition that leaves the group's middlewares out of the chain
GroupCombinedWithoutGroup(smws, gmws, handler) == WrapAll(smws, Len(smws), handler)

\* the body of Group.Handle before the router call: server-level
\* middlewares are wrapped first, group middlewares around them
GroupCombined(smws, gmws, handler) ==
    WrapAll(gmws, Len(gmws), WrapAll(smws, Len(smws), handler))

\* a loop that wraps with every conditional middleware, whatever its pattern
RECURSIVE ApplyConditionalAll(_, _, _, _)
ApplyConditionalAll(cms, i, path, final) ==
    IF i > Len(cms)
    THEN final
    ELSE ApplyConditionalAll(cms, i + 1, path, Wrap(cms[i].Middleware, final))

\* a loop that leaves the first-registered matching middleware outermost
RECURSIVE ApplyConditionalFirstOutermost(_, _, _, _)
ApplyConditionalFirstOutermost(cms, i, path, final) ==
    IF i > Len(cms)
    THEN final
    ELSE IF HasPrefix(path, TrimSuffix(cms[i].Pattern, <<"*">>))
         THEN Wrap(cms[i].Middleware,
                   ApplyConditionalFirstOutermost(cms, i + 1, path, final))
         ELSE ApplyConditionalFirstOutermost(cms, i + 1, path, final)

\* the conditional-middleware loop of ServeHTTP, from entry i on
RECURSIVE ApplyConditional(_, _, _, _)
ApplyConditional(cms, i, path, final) ==
    IF i > Len(cms)
    THEN final
    ELSE IF HasPrefix(path, TrimSuffix(cms[i].Pattern, <<"*">>))
         THEN ApplyConditional(cms, i + 1, path, Wrap(cms[i].Middleware, final))
         ELSE ApplyConditional(cms, i + 1, path, final)

(***************************************************************************)
(* What a layer does when it is called, and when the handler it wraps      *)
(* returns.  An outcome says how the layer goes on:                        *)
(*   "next"   it calls the handler it wraps                                *)
(*   "return" it returns resp to its caller                                *)
(*   "panic"  it panics with value pval                                    *)
(***************************************************************************)
Outcome(c, how, resp, pval) == [c |-> c, how |-> how, resp |-> resp, pval |-> pval]

CallNext(c) == Outcome(c, "next", NilResponse, "")

Return(c, resp) == Outcome(c, "return", resp, "")

Panic(c, pval) == Outcome(c, "panic", NilResponse, pval)

Marks == {"A", "B", "C"}

MarkHeader(mw) == CASE mw = "A" -> "X-A" [] mw = "B" -> "X-B" [] OTHER -> "X-C"

\* CSRF: DefaultCSRFConfig
CsrfSkipMethods == {"GET", "HEAD", "OPTIONS", "TRACE"}

CsrfContextKey == <<"csrf_token">>

\* the HMAC of a token under the configured secret, base64-encoded
Hmac(token) == <<"hmac">> \o token

\* a getOrCreateCSRFToken that generates a token on every call
getOrCreateCSRFTokenAlwaysNew(c, fresh) ==
    [token |-> fresh, c |-> [c EXCEPT !.Params.m = Put(@, CsrfContextKey, fresh)]]

\* getOrCreateCSRFToken(c, cfg); fresh: the token generateCSRFToken would
\* return.  Gives the token and the context after the call.  The caller
\* holds a non-nil Params: the assignment panics on a nil map.
getOrCreateCSRFToken(c, fresh) ==
    IF CsrfContextKey \in DOMAIN c.Params.m /\ c.Params.m[CsrfContextKey] # NoToken
    THEN [token |-> c.Params.m[CsrfContextKey], c |-> c]
    ELSE [token |-> fresh,
          c |-> [c EXCEPT !.Params.m = Put(@, CsrfContextKey, fresh)]]

\* a validation that accepts every client token
validateCSRFTokenAlways(serverToken, clientToken) == TRUE

\* validateCSRFToken(secret, serverToken, clientToken)
validateCSRFToken(serverToken, clientToken) == Hmac(serverToken) = clientToken

\* a CSRF middleware that keeps its token in a map of its own, which replaces
\* the map the dispatcher filled
CsrfEnterFreshMap(c, fresh) ==
    IF c.Request.Method \in CsrfSkipMethods
    THEN CallNext(c)
    ELSE CallNext([c EXCEPT !.Writer = SetCookie(@, fresh),
                            !.Params = [isNil |-> FALSE,
                                        m |-> Put(<<>>, CsrfContextKey, fresh),
                                        ref |-> c.Params.ref]])

\* CSRFWithConfig(DefaultCSRFConfig)(next)(c) up to its call of next
CsrfEnter(c, fresh) ==
    IF c.Request.Method \in CsrfSkipMethods
    THEN CallNext(c)
    ELSE IF c.Params.isNil
    THEN Panic(c, "assignment to entry in nil map")
    ELSE LET clientToken == IF c.Request.CsrfHeader # NoToken
                            THEN c.Request.CsrfHeader
                            ELSE c.Request.CsrfCookie
             g1 == getOrCreateCSRFToken(c, fresh)
             c1 == IF clientToken # NoToken THEN g1.c ELSE c
         IN  IF clientToken # NoToken /\ ~validateCSRFToken(g1.token, clientToken)
             THEN LET r == String(c1, 403, "invalid CSRF token")
                  IN  Return(r.c, r.resp)
             ELSE LET g2 == getOrCreateCSRFToken(c1, fresh)
                  IN  CallNext([g2.c EXCEPT
                                   !.Writer = SetCookie(@, g2.token),
                                   !.Params.m = Put(@, CsrfContextKey, g2.token)])

\* defaultCORSConfig, and the configuration of the test of a disallowed
\* origin, which names the allowed origin only
defaultCORSConfig ==
    [AllowOrigins |-> <<"*">>,
     AllowMethods |-> "GET, HEAD, PUT, PATCH, POST, DELETE",
     AllowHeaders |-> "Content-Type, Authorization, Accept, Origin, X-Requested-With"]

allowedOnlyCORSConfig ==
    [AllowOrigins |-> <<"https://allowed.com">>, AllowMethods |-> "", AllowHeaders |-> ""]

\* the defaults CORSWithConfig fills in for the lists left empty
CorsDefaults(cfg) ==
    [AllowOrigins |-> IF cfg.AllowOrigins = <<>> THEN <<"*">> ELSE cfg.AllowOrigins,
     AllowMethods |-> IF cfg.AllowMethods = ""
                      THEN "GET, POST, PUT, PATCH, DELETE, OPTIONS" ELSE cfg.AllowMethods,
     AllowHeaders |-> IF cfg.AllowHeaders = ""
                      THEN "Content-Type, Authorization" ELSE cfg.AllowHeaders]

\* strings.EqualFold(o, origin), over the origins of the model
ToLower(s) == IF s = "HTTPS://ALLOWED.COM" THEN "https://allowed.com" ELSE s

EqualFold(a, b) == ToLower(a) = ToLower(b)

\* an origin check that lets every non-empty origin through
OriginAllowedAny(cfg, origin) == origin # ""

\* "Match origin": the request's Origin is echoed
OriginAllowed(cfg, origin) ==
    /\ origin # ""
    /\ \E i \in 1..Len(cfg.AllowOrigins) :
           cfg.AllowOrigins[i] = "*" \/ EqualFold(cfg.AllowOrigins[i], origin)

\* a CORS middleware without the preflight branch
CorsEnterNoPreflight(config, c) ==
    LET cfg == CorsDefaults(config)
        w1  == IF OriginAllowed(cfg, c.Request.Origin)
               THEN HeaderSet(c.Writer, "Access-Control-Allow-Origin", c.Request.Origin)
               ELSE c.Writer
    IN  CallNext([c EXCEPT !.Writer =
            HeaderSet(HeaderSet(HeaderSet(w1,
                "Access-Control-Allow-Methods", cfg.AllowMethods),
                "Access-Control-Allow-Headers", cfg.AllowHeaders),
                "Access-Control-Allow-Credentials", "true")])

\* CORSWithConfig(config)(next)(c) up to its call of next
CorsEnter(config, c) ==
    LET cfg    == CorsDefaults(config)
        origin == c.Request.Origin
        w1 == IF OriginAllowed(cfg, origin)
              THEN HeaderSet(c.Writer, "Access-Control-Allow-Origin", origin)
              ELSE c.Writer
        w2 == HeaderSet(HeaderSet(HeaderSet(w1,
                  "Access-Control-Allow-Methods", cfg.AllowMethods),
                  "Access-Control-Allow-Headers", cfg.AllowHeaders),
                  "Access-Control-Allow-Credentials", "true")
    IN  IF c.Request.Method = "OPTIONS"
        THEN Return([c EXCEPT !.Writer = WriteHeader(w2, 204), !.Handled = TRUE],
                    Response(TRUE, "CORS preflight", NoDetails, 204))
        ELSE CallNext([c EXCEPT !.Writer = w2])

\* the configuration of the CORS middleware named mw: CORS(), or
\* CORSWithConfig of the one allowed origin
CorsConfig(mw) == IF mw = "cors" THEN defaultCORSConfig ELSE allowedOnlyCORSConfig

CorsMws == {"cors", "corsAllowedOnly"}

\* the example application's AuthMiddleware
AuthEnter(c) ==
    IF c.Request.Authorization = ""
    THEN Return(c, Response(FALSE, "Unauthorized", NoDetails, 401))
    ELSE CallNext(c)

\* mw(next)(c) up to the call of next
EnterMiddleware(mw, c, fresh) ==
    CASE mw \in Marks  -> CallNext([c EXCEPT !.Writer = HeaderSet(@, MarkHeader(mw), "1")])
      [] mw = "auth"   -> AuthEnter(c)
      [] mw \in CorsMws -> CorsEnter(CorsConfig(mw), c)
      [] mw = "csrf"   -> CsrfEnter(c, fresh)
      [] OTHER         -> CallNext(c)   \* Logger, Recovery, ProfilingMiddleware

\* mw(next)(c) after next returned resp: Logger and ProfilingMiddleware
\* read resp.Code, the others hand resp on
LeaveMiddleware(mw, c, resp) ==
    IF mw \in {"logger", "profiling"} /\ resp.isNil
    THEN Panic(c, "nil pointer dereference")
    ELSE Return(c, resp)

\* strings.Contains(accept, "text/html"), over the Accept values of the model
ContainsTextHTML(accept) == accept \in {"text/html", "text/html,application/xhtml+xml"}

\* c.JSON(code, resp) as Recovery calls it: the two-argument JSON, which
\* writes resp and neither reads nor sets Handled
ContextJSON(c, code, resp) ==
    [c EXCEPT !.Writer = Write(WriteHeader(HeaderSet(@, "Content-Type", "application/json"),
                                           code),
                               EncodeJSON(resp))]

\* Recovery's deferred function that writes whatever Handled says
RecoveryDeferredUnguarded(c, r) ==
    IF ContainsTextHTML(c.Request.Accept)
    THEN HTML([c EXCEPT !.Handled = FALSE], 500, "<h1>500 Internal Server Error</h1>").c
    ELSE ContextJSON(c, 500, Response(FALSE, "Internal Server Error", <<r>>, 500))

\* Recovery's deferred function, run with the recovered value r
RecoveryDeferred(c, r) ==
    IF ~c.Handled
    THEN IF ContainsTextHTML(c.Request.Accept)
         THEN HTML(c, 500, "<h1>500 Internal Server Error</h1>").c
         ELSE ContextJSON(c, 500, Response(FALSE, "Internal Server Error", <<r>>, 500))
    ELSE c

(***************************************************************************)
(* Body binders.  A request body is one of the bodies of the binder tests, *)
(* and the decoders are the standard library's, tabulated over them.  An   *)
(* error is its message, "" is nil.                                        *)
(***************************************************************************)
B_json      == "{\"name\":\"Rishi\"}"
B_jsonBad   == "{\"name\":"
B_xml       == "<payload><Name>Rishi</Name></payload>"
B_xmlBad    == "<payload><Name>Rishi</payload>"
B_form      == "Name=Rishi"
B_multipart == "--b Name: Rishi --b--"
B_text      == "hello"

Bodies == {"", B_json, B_jsonBad, B_xml, B_xmlBad, B_form, B_multipart, B_text}

CT_multipart == "multipart/form-data; boundary=b"

ContentTypes ==
    {"", "application/json", "application/xml", "application/x-www-form-urlencoded",
     CT_multipart, "text/plain", "text/"}

\* the result of a binder: the context after the call and the error returned
Bound(c, err) == [c |-> c, err |-> err]

\* io.ReadAll(c.Request.Body): the body is consumed
ReadAll(c) == [c EXCEPT !.Request.Body = ""]

\* json.Unmarshal(body, dest) and xml.Unmarshal(body, dest), dest a struct
\* with the one field Name
Unmarshal(format, body) ==
    IF format = "json"
    THEN CASE body = B_json -> ""
           [] body \in {"", B_jsonBad} -> "unexpected end of JSON input"
           [] OTHER -> "invalid character looking for beginning of value"
    ELSE CASE body = B_xml -> ""
           [] body = B_xmlBad -> "XML syntax error: element <Name> closed by </payload>"
           [] OTHER -> "EOF"

\* mime.ParseMediaType(contentType): the media type, or an error
ParseMediaType(contentType) ==
    CASE contentType = CT_multipart -> [mediaType |-> "multipart/form-data", err |-> ""]
      [] contentType = "text/" -> [mediaType |-> "", err |-> "mime: expected token after slash"]
      [] OTHER -> [mediaType |-> contentType, err |-> ""]

\* strings.Contains(contentType, want), over the Content-Types of the model
ContainsMediaType(contentType, want) == contentType = want

\* shouldBindBody(dest, jsonOnly): the decode of ShouldBind and ShouldBindJSON
\* of server.go, which writes nothing
shouldBindBody(c, jsonOnly) ==
    IF jsonOnly /\ ~ContainsMediaType(c.Request.ContentType, "application/json")
    THEN Bound(c, "expected Content-Type: application/json")
    ELSE Bound(ReadAll(c), Unmarshal("json", c.Request.Body))

\* a bindBody that returns the error and leaves the answer to the caller
bindBodySilent(c, jsonOnly) == shouldBindBody(c, jsonOnly)

\* bindBody(dest, jsonOnly): Bind and BindJSON of server.go; on an error it
\* writes the 400 envelope with the two-argument JSON
bindBody(c, jsonOnly) ==
    LET b == shouldBindBody(c, jsonOnly)
    IN  IF b.err # ""
        THEN Bound(ContextJSON(b.c, 400,
                               Response(FALSE, "Invalid request body", <<b.err>>, 400)),
                   b.err)
        ELSE Bound(b.c, "")

\* shouldBindBody(dest, contentType, unmarshal): the decode behind
\* ShouldBindJSON and ShouldBindXML; it rejects another Content-Type and an
\* empty body and writes nothing
shouldBindBodyAs(c, contentType, format) ==
    IF ~ContainsMediaType(c.Request.ContentType, contentType)
    THEN Bound(c, "expected Content-Type: " \o contentType)
    ELSE IF c.Request.Body = ""
    THEN Bound(ReadAll(c), "empty request body")
    ELSE Bound(ReadAll(c), Unmarshal(format, c.Request.Body))

\* c.writeErrorResponse(code, message, err): the error envelope, written
\* through the JSON helper
writeErrorResponse(c, code, message, err) == JSON(c, FALSE, message, <<err>>, code).c

\* c.bindFormToStruct(values, dest), dest a struct with the one string field
\* Name: no value fails to convert
bindFormToStruct(values) == ""

ShouldBindJSON(c) == shouldBindBodyAs(c, "application/json", "json")

ShouldBindXML(c) == shouldBindBodyAs(c, "application/xml", "xml")

\* Request.ParseForm reads the body of a POST only under the urlencoded
\* Content-Type; any non-empty body then gives at least one key
ShouldBindForm(c) ==
    IF c.Request.ContentType = "application/x-www-form-urlencoded" /\ c.Request.Body # ""
    THEN Bound(ReadAll(c), bindFormToStruct(c.Request.Body))
    ELSE Bound(IF c.Request.ContentType = "application/x-www-form-urlencoded"
               THEN ReadAll(c) ELSE c,
               "no form values found")

\* Request.ParseMultipartForm fails unless the Content-Type is
\* multipart/form-data and the body is made of parts
ShouldBindMultipart(c) ==
    IF c.Request.ContentType # CT_multipart
    THEN Bound(c, "failed to parse multipart form: request Content-Type isn't multipart/form-data")
    ELSE IF c.Request.Body # B_multipart
    THEN Bound(ReadAll(c), "failed to parse multipart form: multipart: NextPart: EOF")
    ELSE Bound(ReadAll(c), bindFormToStruct(c.Request.Body))

ShouldBind(c) ==
    LET contentType == c.Request.ContentType
        parsed      == ParseMediaType(contentType)
    IN  IF contentType = ""
        THEN Bound(c, "missing Content-Type header")
        ELSE IF parsed.err # ""
        THEN Bound(c, "invalid Content-Type: " \o parsed.err)
        ELSE CASE parsed.mediaType = "application/json" -> ShouldBindJSON(c)
               [] parsed.mediaType \in {"application/xml", "text/xml"} -> ShouldBindXML(c)
               [] parsed.mediaType = "application/x-www-form-urlencoded" -> ShouldBindForm(c)
               [] parsed.mediaType = "multipart/form-data" -> ShouldBindMultipart(c)
               [] OTHER -> Bound(c, "unsupported Content-Type: " \o parsed.mediaType)

\* the auto-responding binders: the silent binder, then the 400 on an error
AutoRespond(b, message) ==
    IF b.err # ""
    THEN Bound(writeErrorResponse(b.c, 400, message, b.err), b.err)
    ELSE Bound(b.c, "")

Bind(c) == AutoRespond(ShouldBind(c), "Invalid request body")

BindJSON(c) == AutoRespond(ShouldBindJSON(c), "Invalid JSON body")

BindXML(c) == AutoRespond(ShouldBindXML(c), "Invalid XML body")

(***************************************************************************)
(* Terminal handlers (the example application's and the tests')            *)
(***************************************************************************)
\* c.Param(name)
Param(c, name) ==
    IF c.Params.isNil \/ name \notin DOMAIN c.Params.m THEN <<>> ELSE c.Params.m[name]

RunHandler(h, c) ==
    CASE h = "ping" -> Return(c, Response(TRUE, "pong", NoDetails, 200))
      [] h = "user" -> Return(c, Response(TRUE, "User found",
                                          <<"id">> \o Param(c, <<"i">>), 200))
      [] h = "html" -> LET r == HTML(c, 200, "<h1>Serving HTML</h1>")
                       IN  Return(r.c, r.resp)
      [] h = "docs" -> LET r == Redirect(c, 302, "https://google.com")
                       IN  Return(r.c, r.resp)
      [] h = "text" -> LET r == String(c, 200, "Hello")
                       IN  Return(r.c, r.resp)
      [] h = "partial" -> Panic(String(c, 200, "partial").c, "already handled panic")
      [] OTHER      -> Panic(c, "boom")

(***************************************************************************)
(* Request slots.  A slot holds one request being served by ServeHTTP:     *)
(*   pc    "idle"    no request                                            *)
(*         "call"    about to call `todo`, the handler not yet entered     *)
(*         "ret"     resp is being returned to the layers of `stack`       *)
(*         "panic"   a panic with value pval unwinds the layers of `stack` *)
(*         "done"    ServeHTTP returned                                    *)
(*         "crashed" the panic left ServeHTTP                              *)
(*         "test"    a test calls the write helpers on a context it built  *)
(*   c     the Context (with its Writer and Request)                       *)
(*   stack the layers that called next and wait for it, innermost first    *)
(*   trace history: the layers entered and left, in order                  *)
(*   err   the error the binder called by a test returned, "" for nil      *)
(***************************************************************************)
ReqIds == {1, 2}

\* the slot of a server that serves one request at a time
Serial == {1}

IdleSlot ==
    [pc |-> "idle", c |-> NewContext(NewRecorder, NoRequest), todo |-> NilHandler,
     stack |-> <<>>, resp |-> NilResponse, pval |-> "", trace |-> <<>>, err |-> ""]

Event(ev, who, c) == [ev |-> ev, who |-> who, params |-> c.Params]

AllIdle == \A r \in ReqIds : reqs[r].pc = "idle"

(***************************************************************************)
(* Init: New(), no request in flight                                       *)
(***************************************************************************)
Init ==
    /\ routes = <<>>
    /\ middlewares = <<>>
    /\ conditionalMiddleware = <<>>
    /\ groups = <<>>
    /\ regLog = <<>>
    /\ reqs = [r \in ReqIds |-> IdleSlot]
    /\ lookup = [done |-> FALSE, method |-> "", path |-> <<>>, res |-> NoMatch]

(***************************************************************************)
(* Registration                                                            *)
(***************************************************************************)
\* a Handle that replaces the handler of a route already registered with the
\* same method and path
RouterAppendOverride(rs, method, path, handler) ==
    IF \E i \in 1..Len(rs) : rs[i].Method = method /\ rs[i].Path = path
    THEN [i \in 1..Len(rs) |->
              IF rs[i].Method = method /\ rs[i].Path = path
              THEN [rs[i] EXCEPT !.Handler = handler]
              ELSE rs[i]]
    ELSE Append(rs, [Method |-> method, Path |-> path, Handler |-> handler])

\* Router.Handle(method, path, handler)
RouterAppend(rs, method, path, handler) ==
    Append(rs, [Method |-> method, Path |-> path, Handler |-> handler])

\* router.Handle called directly, as the router's test does: every route is
\* registered before the first lookup
RouterHandle(method, path, h) ==
    /\ AllIdle
    /\ ~lookup.done
    /\ Len(routes) < MaxRoutes
    /\ routes' = RouterAppend(routes, method, path, Terminal(h))
    /\ regLog' = Append(regLog, [via |-> "router", method |-> method, path |-> path, globals |-> <<>>, group |-> 0,
                                 gmws |-> <<>>, term |-> h])
    /\ UNCHANGED <<middlewares, conditionalMiddleware, groups, reqs, lookup>>

\* Server.Use(mw)
Use(mw) ==
    /\ AllIdle
    /\ Len(middlewares) < MaxMw
    /\ middlewares' = Append(middlewares, mw)
    /\ UNCHANGED <<routes, conditionalMiddleware, groups, regLog, reqs, lookup>>

\* Server.UseIf(pattern, mw)
UseIf(pattern, mw) ==
    /\ AllIdle
    /\ Len(conditionalMiddleware) < MaxCond
    /\ conditionalMiddleware' =
           Append(conditionalMiddleware, [Pattern |-> pattern, Middleware |-> mw])
    /\ UNCHANGED <<routes, middlewares, groups, regLog, reqs, lookup>>

\* Server.Handle(method, path, handler)
ServerHandle(method, path, h) ==
    /\ AllIdle
    /\ Len(routes) < MaxRoutes
    /\ routes' = RouterAppend(routes, method, path, ServerCombined(middlewares, Terminal(h)))
    /\ regLog' = Append(regLog, [via |-> "server", method |-> method, path |-> path, globals |-> middlewares, group |-> 0,
                                 gmws |-> <<>>, term |-> h])
    /\ UNCHANGED <<middlewares, conditionalMiddleware, groups, reqs, lookup>>

\* Server.Group(prefix)
NewGroup(prefix) ==
    /\ AllIdle
    /\ groups' = Append(groups, [Prefix |-> prefix, Middlewares |-> <<>>])
    /\ UNCHANGED <<routes, middlewares, conditionalMiddleware, regLog, reqs, lookup>>

\* a Use that reaches every group created with the same prefix
GroupUseByPrefix(g, mw) ==
    /\ AllIdle
    /\ g \in 1..Len(groups)
    /\ Len(groups[g].Middlewares) < MaxGroupMw
    /\ groups' = [k \in 1..Len(groups) |->
                      IF groups[k].Prefix = groups[g].Prefix
                      THEN [groups[k] EXCEPT !.Middlewares = Append(@, mw)]
                      ELSE groups[k]]
    /\ UNCHANGED <<routes, middlewares, conditionalMiddleware, regLog, reqs, lookup>>

\* Group.Use(mw) on group g
GroupUse(g, mw) ==
    /\ AllIdle
    /\ g \in 1..Len(groups)
    /\ Len(groups[g].Middlewares) < MaxGroupMw
    /\ groups' = [groups EXCEPT ![g].Middlewares = Append(@, mw)]
    /\ UNCHANGED <<routes, middlewares, conditionalMiddleware, regLog, reqs, lookup>>

\* a full path with a '/' put between prefix and path
FullPathJoined(prefix, path) == prefix \o <<"/">> \o path

\* fullPath := g.Prefix + path
FullPath(prefix, path) == prefix \o path

\* Group.Handle(method, path, handler) on group g
GroupHandle(g, method, path, h) ==
    /\ AllIdle
    /\ g \in 1..Len(groups)
    /\ Len(routes) < MaxRoutes
    /\ routes' = RouterAppend(routes, method, FullPath(groups[g].Prefix, path),
                              GroupCombined(middlewares, groups[g].Middlewares, Terminal(h)))
    /\ regLog' = Append(regLog, [via |-> "group", method |-> method, path |-> path, globals |-> middlewares, group |-> g,
                                 gmws |-> groups[g].Middlewares, term |-> h])
    /\ UNCHANGED <<middlewares, conditionalMiddleware, groups, reqs, lookup>>

(***************************************************************************)
(* A direct lookup in the router, as the router's test does                *)
(***************************************************************************)
Lookup(method, path) ==
    /\ lookup' = [done |-> TRUE, method |-> method, path |-> path,
                  res |-> FindHandler(routes, method, path)]
    /\ UNCHANGED <<serverVars, reqs>>

(***************************************************************************)
(* ServeHTTP                                                               *)
(***************************************************************************)
\* ServeHTTP up to the call of the composed handler: the context, the
\* router lookup, the 404 answer or the conditional middlewares
ServeBegin(rid, r) ==
    /\ reqs[rid].pc = "idle"
    /\ LET c0    == NewContext(NewRecorder, r)
           found == FindHandler(routes, r.Method, r.Path)
       IN  reqs' = [reqs EXCEPT ![rid] =
                IF found.Handler.isNil
                THEN [IdleSlot EXCEPT
                          !.pc = "done",
                          !.c = [c0 EXCEPT !.Writer = HttpError(@, "404 page not found", 404)]]
                ELSE [IdleSlot EXCEPT
                          !.pc = "call",
                          !.c = BindParams(c0, Returned(found.Params, rid)),
                          !.todo = ApplyConditional(conditionalMiddleware, 1, r.Path,
                                                    found.Handler)]]
    /\ UNCHANGED <<serverVars, lookup>>

\* the slot after a layer (middleware or terminal handler) `who` was called
\* with outcome o
AfterCall(slot, who, o) ==
    LET entered == Append(slot.trace, Event("enter", who, slot.c))
    IN  CASE o.how = "next" ->
               [slot EXCEPT !.c = o.c, !.todo.layers = Tail(@),
                            !.stack = <<who>> \o @, !.trace = entered]
          [] o.how = "return" ->
               [slot EXCEPT !.pc = "ret", !.c = o.c, !.resp = o.resp,
                            !.trace = Append(entered, Event("exit", who, o.c))]
          [] OTHER ->
               [slot EXCEPT !.pc = "panic", !.c = o.c, !.pval = o.pval,
                            !.trace = entered]

\* the slots rs after the layer called in slot rid wrote to its Params: every
\* context that holds the same map sees the map as the layer left it
SeenByAll(rs, rid) ==
    [r \in ReqIds |->
        IF /\ r # rid
           /\ rs[r].pc \notin {"idle", "test"}
           /\ ~rs[r].c.Params.isNil
           /\ ~rs[rid].c.Params.isNil
           /\ rs[r].c.Params.ref = rs[rid].c.Params.ref
        THEN [rs[r] EXCEPT !.c.Params = rs[rid].c.Params]
        ELSE rs[r]]

\* the next layer of the composed handler is called: a middleware, or the
\* terminal handler once every layer was entered; fresh is the token
\* generateCSRFToken returns if the layer calls it
Call(rid, fresh) ==
    /\ reqs[rid].pc = "call"
    /\ LET slot == reqs[rid]
       IN  IF slot.todo.layers = <<>>
           THEN reqs' = SeenByAll([reqs EXCEPT ![rid] =
                    AfterCall(slot, slot.todo.term, RunHandler(slot.todo.term, slot.c))], rid)
           ELSE reqs' = SeenByAll([reqs EXCEPT ![rid] =
                    AfterCall(slot, Head(slot.todo.layers),
                              EnterMiddleware(Head(slot.todo.layers), slot.c, fresh))], rid)
    /\ UNCHANGED <<serverVars, lookup>>

\* next(c) returns to the innermost waiting middleware, which returns in turn
MiddlewareReturn(rid) ==
    /\ reqs[rid].pc = "ret"
    /\ reqs[rid].stack # <<>>
    /\ LET slot == reqs[rid]
           mw   == Head(slot.stack)
           o    == LeaveMiddleware(mw, slot.c, slot.resp)
       IN  reqs' = [reqs EXCEPT ![rid] =
                IF o.how = "panic"
                THEN [slot EXCEPT !.pc = "panic", !.stack = Tail(@), !.pval = o.pval,
                                  !.resp = NilResponse]
                ELSE [slot EXCEPT !.stack = Tail(@), !.c = o.c, !.resp = o.resp,
                                  !.trace = Append(@, Event("exit", mw, o.c))]]
    /\ UNCHANGED <<serverVars, lookup>>

\* a panic leaves the innermost waiting middleware; Recovery's deferred
\* function stops it and Recovery returns nil
Unwind(rid) ==
    /\ reqs[rid].pc = "panic"
    /\ LET slot == reqs[rid]
       IN  reqs' = [reqs EXCEPT ![rid] =
                IF slot.stack = <<>>
                THEN [slot EXCEPT !.pc = "crashed"]
                ELSE IF Head(slot.stack) = "recovery"
                     THEN [slot EXCEPT !.pc = "ret", !.stack = Tail(@),
                                       !.c = RecoveryDeferred(@, slot.pval),
                                       !.resp = NilResponse, !.pval = "",
                                       !.trace = Append(@, Event("exit", "recovery", slot.c))]
                     ELSE [slot EXCEPT !.stack = Tail(@)]]
    /\ UNCHANGED <<serverVars, lookup>>

\* "Write JSON response": the end of ServeHTTP, given what the composed
\* handler returned
WriteEnvelope(c, resp) ==
    IF ~resp.isNil
    THEN Write(WriteHeader(HeaderSet(c.Writer, "Content-Type", "application/json"),
                           resp.Code),
               EncodeJSON(resp))
    ELSE c.Writer

Serialize(rid) ==
    /\ reqs[rid].pc = "ret"
    /\ reqs[rid].stack = <<>>
    /\ reqs' = [reqs EXCEPT ![rid] =
           [@ EXCEPT !.pc = "done", !.c.Writer = WriteEnvelope(reqs[rid].c, reqs[rid].resp)]]
    /\ UNCHANGED <<serverVars, lookup>>

\* the request is over: its context is discarded
Finish(rid) ==
    /\ reqs[rid].pc \in {"done", "crashed"}
    /\ reqs' = [reqs EXCEPT ![rid] = IdleSlot]
    /\ UNCHANGED <<serverVars, lookup>>

(***************************************************************************)
(* Spec: routes registered with Server.Handle behind global and            *)
(* conditional middleware, and requests dispatched by ServeHTTP            *)
(***************************************************************************)
Methods == {"GET", "POST"}

UseMws == {"A", "csrf"}

CondChoices == {[pattern |-> S_uStar, mw |-> "auth"]}

RouteChoices ==
    {[method |-> "GET",  path |-> S_uParam, h |-> "user"],
     [method |-> "POST", path |-> S_uParam, h |-> "html"]}

Requests ==
    {Request(m, p, a, "", "", NoToken, NoToken) :
        m \in Methods, p \in {S_u, S_u1}, a \in {"", "key"}}

Next ==
    \/ \E mw \in UseMws : Use(mw)
    \/ \E cm \in CondChoices : UseIf(cm.pattern, cm.mw)
    \/ \E rc \in RouteChoices : ServerHandle(rc.method, rc.path, rc.h)
    \/ \E rid \in Serial : \E r \in Requests : ServeBegin(rid, r)
    \/ \E rid \in Serial : Call(rid, <<"t1">>)
    \/ \E rid \in Serial : MiddlewareReturn(rid)
    \/ \E rid \in Serial : Serialize(rid)
    \/ \E rid \in Serial : Finish(rid)

Spec == Init /\ [][Next]_vars

(***************************************************************************)
(* SpecOrder: routes registered on the server and through a group, behind  *)
(* marker middlewares that record the order in which they run              *)
(***************************************************************************)
OrderRequests ==
    {Request("GET", p, "", "", "", NoToken, NoToken) : p \in {S_u, S_gu, S_v}}

NextOrder ==
    \/ \E mw \in {"A", "B"} : Use(mw)
    \/ groups = <<>> /\ NewGroup(S_g)
    \/ \E g \in 1..Len(groups) : GroupUse(g, "C")
    \/ ServerHandle("GET", S_u, "ping")
    \/ \E g \in 1..Len(groups) : GroupHandle(g, "GET", S_u, "ping")
    \/ \E rid \in Serial : \E r \in OrderRequests : ServeBegin(rid, r)
    \/ \E rid \in Serial : Call(rid, <<"t1">>)
    \/ \E rid \in Serial : MiddlewareReturn(rid)
    \/ \E rid \in Serial : Serialize(rid)
    \/ \E rid \in Serial : Finish(rid)

SpecOrder == Init /\ [][NextOrder]_vars

(***************************************************************************)
(* SpecRouter: routes registered in a Router and looked up directly        *)
(***************************************************************************)
RouterPatterns == {S_u, S_uSlash, S_uParam, S_uX, S_dup}

RouterPaths == {S_u, S_uSlash, S_u1, S_uX, S_u1X, S_v}

RouterHandlers == {"ping", "user"}

NextRouter ==
    \/ \E m \in Methods : \E p \in RouterPatterns : \E h \in RouterHandlers :
           RouterHandle(m, p, h)
    \/ \E m \in Methods : \E p \in RouterPaths : Lookup(m, p)

SpecRouter == Init /\ [][NextRouter]_vars

(***************************************************************************)
(* SpecPanic: handlers that panic, before or after writing, behind         *)
(* Recovery and Logger, registered globally or conditionally               *)
(***************************************************************************)
PanicMws == {"logger", "recovery"}

PanicHandlers == {"boom", "partial"}

PanicRequests ==
    {Request("GET", S_u1, "", a, "", NoToken, NoToken) : a \in {"", "text/html"}}

NextPanic ==
    \/ \E mw \in PanicMws : Use(mw)
    \/ UseIf(S_uStar, "recovery")
    \/ \E h \in PanicHandlers : ServerHandle("GET", S_uParam, h)
    \/ \E rid \in Serial :
           \/ \E r \in PanicRequests : ServeBegin(rid, r)
           \/ Call(rid, <<"t1">>)
           \/ MiddlewareReturn(rid)
           \/ Unwind(rid)
           \/ Serialize(rid)
           \/ Finish(rid)

SpecPanic == Init /\ [][NextPanic]_vars

(***************************************************************************)
(* SpecCond: conditional middlewares in front of routes registered on the  *)
(* server and through a group                                              *)
(***************************************************************************)
CondRegistrations ==
    {[pattern |-> S_uStar, mw |-> "A"],
     [pattern |-> S_all,   mw |-> "B"],
     [pattern |-> S_g,     mw |-> "A"]}

CondRequests ==
    {Request("GET", p, "", "", "", NoToken, NoToken) : p \in {S_u1, S_gu}}

NextCond ==
    \/ middlewares = <<>> /\ Use("C")
    \/ \E cm \in CondRegistrations : UseIf(cm.pattern, cm.mw)
    \/ ServerHandle("GET", S_uParam, "user")
    \/ groups = <<>> /\ NewGroup(S_g)
    \/ \E g \in 1..Len(groups) : GroupUse(g, "C")
    \/ \E g \in 1..Len(groups) : GroupHandle(g, "GET", S_u, "ping")
    \/ \E rid \in Serial :
           \/ \E r \in CondRequests : ServeBegin(rid, r)
           \/ Call(rid, <<"t1">>)
           \/ MiddlewareReturn(rid)
           \/ Serialize(rid)
           \/ Finish(rid)

SpecCond == Init /\ [][NextCond]_vars

(***************************************************************************)
(* SpecGroup: an application that creates two groups, as the example does  *)
(* (v1 and auth), registers routes on the server and through the groups,   *)
(* and adds middleware to the groups at any moment                         *)
(***************************************************************************)
GroupsCreated == <<"v1", "auth">>

GroupPrefixes == {S_g, S_gNoSlash}

\* the middleware each group passes to Use, and the handler of its routes
GroupMw(g) == IF g = 1 THEN "B" ELSE "C"

GroupHandler(g) == IF g = 1 THEN "ping" ELSE "text"

\* the route helpers each group calls: v1.GET; auth.GET and auth.POST
GroupMethods(g) == IF g = 1 THEN {"GET"} ELSE Methods

GroupRequests ==
    {Request("GET", p, "", "", "", NoToken, NoToken) : p \in {S_gu, S_u}}

NextGroup ==
    \/ middlewares = <<>> /\ Use("A")
    \/ ServerHandle("GET", S_u, "user")
    \/ \E prefix \in GroupPrefixes :
           /\ Len(groups) < Len(GroupsCreated)
           /\ groups = <<>> => prefix = S_g
           /\ NewGroup(prefix)
    \/ \E g \in 1..Len(groups) : GroupUse(g, GroupMw(g))
    \/ \E g \in 1..Len(groups) : \E m \in GroupMethods(g) :
           GroupHandle(g, m, S_u, GroupHandler(g))
    \/ \E rid \in Serial :
           \/ \E r \in GroupRequests : ServeBegin(rid, r)
           \/ Call(rid, <<"t1">>)
           \/ MiddlewareReturn(rid)
           \/ Serialize(rid)
           \/ Finish(rid)

SpecGroup == Init /\ [][NextGroup]_vars

(***************************************************************************)
(* SpecParams: the built-in middlewares registered with Server.Use before  *)
(* the routes, and requests to a route with one parameter                  *)
(***************************************************************************)
ParamsMws == {"logger", "recovery", "profiling", "cors", "csrf"}

ParamsRoutes ==
    {[method |-> "GET",  h |-> "user"],
     [method |-> "POST", h |-> "user"],
     [method |-> "POST", h |-> "boom"]}

\* with no CSRF token, and with one the server did not issue
ParamsRequests ==
    {Request(m, S_u1, "", "", "", t, NoToken) : m \in Methods, t \in {NoToken, <<"forged">>}}

NextParams ==
    \/ \E mw \in ParamsMws : routes = <<>> /\ Use(mw)
    \/ \E rc \in ParamsRoutes : ServerHandle(rc.method, S_uParam, rc.h)
    \/ \E rid \in Serial : \E r \in ParamsRequests : ServeBegin(rid, r)
    \/ \E rid \in Serial : Call(rid, <<"t1">>)
    \/ \E rid \in Serial : MiddlewareReturn(rid)
    \/ \E rid \in Serial : Unwind(rid)
    \/ \E rid \in Serial : Serialize(rid)
    \/ \E rid \in Serial : Finish(rid)

SpecParams == Init /\ [][NextParams]_vars

(***************************************************************************)
(* SpecHelpers: the write helpers called one after the other on one        *)
(* context, as the helper tests do                                         *)
(***************************************************************************)
\* rec := httptest.NewRecorder(); c := &Context{Writer: rec}
NewTestContext(rid) ==
    /\ reqs[rid].pc = "idle"
    /\ reqs' = [reqs EXCEPT ![rid] = [IdleSlot EXCEPT !.pc = "test"]]
    /\ UNCHANGED <<serverVars, lookup>>

HelperCalls ==
    {[fn |-> "String", code |-> 200], [fn |-> "HTML", code |-> 201],
     [fn |-> "Blob", code |-> 200], [fn |-> "JSON", code |-> 200],
     [fn |-> "ErrorJSON", code |-> 400], [fn |-> "Redirect", code |-> 302],
     [fn |-> "File", code |-> 200], [fn |-> "FileMissing", code |-> 404],
     [fn |-> "Render", code |-> 200], [fn |-> "RenderFails", code |-> 200],
     [fn |-> "writeResponse", code |-> 202]}

\* one call of a write helper on context c
ApplyHelper(c, call) ==
    CASE call.fn = "String"      -> String(c, call.code, "hello").c
      [] call.fn = "HTML"        -> HTML(c, call.code, "<h1>hi</h1>").c
      [] call.fn = "Blob"        -> Blob(c, call.code, "blob", "application/octet-stream").c
      [] call.fn = "JSON"        -> JSON(c, TRUE, "ok", <<"k", "v">>, call.code).c
      [] call.fn = "ErrorJSON"   -> ErrorJSON(c, "bad", NoDetails, call.code).c
      [] call.fn = "Redirect"    -> Redirect(c, call.code, "/new").c
      [] call.fn = "File"        -> File(c, TRUE, "hello file").c
      [] call.fn = "FileMissing" -> File(c, FALSE, "").c
      [] call.fn = "Render"      -> Render(c, call.code, "hello.html", FALSE, "<h1>World</h1>").c
      [] call.fn = "RenderFails" -> Render(c, call.code, "missing.html", TRUE, "").c
      [] OTHER                   -> writeResponse(c, call.code, "text/plain", Text("hello"))

CallHelper(rid, call) ==
    /\ reqs[rid].pc = "test"
    /\ Len(reqs[rid].trace) < MaxCalls
    /\ LET c1 == ApplyHelper(reqs[rid].c, call)
       IN  reqs' = [reqs EXCEPT ![rid] =
               [@ EXCEPT !.c = c1, !.trace = Append(@, Event("helper", call.fn, c1))]]
    /\ UNCHANGED <<serverVars, lookup>>

NextHelpers ==
    \E rid \in Serial :
        \/ NewTestContext(rid)
        \/ \E call \in HelperCalls : CallHelper(rid, call)

SpecHelpers == Init /\ [][NextHelpers]_vars

(***************************************************************************)
(* SpecBind: one binder called on a context made for a POST with a         *)
(* Content-Type and a body, as the binder tests do                         *)
(***************************************************************************)
\* newTestContextWithBody(http.MethodPost, contentType, body)
NewTestContextWithBody(rid, contentType, body) ==
    /\ reqs[rid].pc = "idle"
    /\ reqs' = [reqs EXCEPT ![rid] =
           [IdleSlot EXCEPT
               !.pc = "test",
               !.c = [NewContext(NewRecorder,
                                 [Request("POST", <<"/">>, "", "", "", NoToken, NoToken)
                                     EXCEPT !.ContentType = contentType, !.Body = body])
                         EXCEPT !.Params = MakeParams]]]
    /\ UNCHANGED <<serverVars, lookup>>

\* the binders that answer 400 themselves, and those that only return the
\* error; "@server.go" marks the binders built on bindBody and the
\* two-argument shouldBindBody
AutoBinders == {"Bind", "BindJSON", "BindXML", "Bind@server.go", "BindJSON@server.go"}

SilentBinders ==
    {"ShouldBind", "ShouldBindJSON", "ShouldBindXML", "ShouldBindForm",
     "ShouldBindMultipart", "ShouldBind@server.go", "ShouldBindJSON@server.go"}

ApplyBinder(c, fn) ==
    CASE fn = "Bind"                     -> Bind(c)
      [] fn = "BindJSON"                 -> BindJSON(c)
      [] fn = "BindXML"                  -> BindXML(c)
      [] fn = "ShouldBind"               -> ShouldBind(c)
      [] fn = "ShouldBindJSON"           -> ShouldBindJSON(c)
      [] fn = "ShouldBindXML"            -> ShouldBindXML(c)
      [] fn = "ShouldBindForm"           -> ShouldBindForm(c)
      [] fn = "ShouldBindMultipart"      -> ShouldBindMultipart(c)
      [] fn = "Bind@server.go"           -> bindBody(c, FALSE)
      [] fn = "BindJSON@server.go"       -> bindBody(c, TRUE)
      [] fn = "ShouldBind@server.go"     -> shouldBindBody(c, FALSE)
      [] OTHER                           -> shouldBindBody(c, TRUE)

\* err := c.<binder>(&p), the one binder call of the test
CallBinder(rid, fn) ==
    /\ reqs[rid].pc = "test"
    /\ reqs[rid].trace = <<>>
    /\ LET b == ApplyBinder(reqs[rid].c, fn)
       IN  reqs' = [reqs EXCEPT ![rid] =
               [@ EXCEPT !.c = b.c, !.err = b.err,
                         !.trace = Append(@, Event("bind", fn, b.c))]]
    /\ UNCHANGED <<serverVars, lookup>>

NextBind ==
    \/ \E rid \in Serial : \E ct \in ContentTypes, body \in Bodies :
           NewTestContextWithBody(rid, ct, body)
    \/ \E rid \in Serial : \E fn \in AutoBinders \cup SilentBinders : CallBinder(rid, fn)

SpecBind == Init /\ [][NextBind]_vars

(***************************************************************************)
(* SpecCors: CORS middlewares, of the default configuration and of one     *)
(* allowed origin, before routes for GET and OPTIONS                       *)
(***************************************************************************)
CorsOrigins == {"", "https://allowed.com", "HTTPS://ALLOWED.COM", "https://disallowed.com"}

CorsMethods == {"GET", "OPTIONS"}

CorsRequests ==
    {Request(m, S_u, "", "", o, NoToken, NoToken) : m \in CorsMethods, o \in CorsOrigins}

NextCors ==
    \/ \E mw \in CorsMws : Use(mw)
    \/ \E m \in CorsMethods : ServerHandle(m, S_u, "ping")
    \/ \E rid \in Serial : \E r \in CorsRequests : ServeBegin(rid, r)
    \/ \E rid \in Serial : Call(rid, <<"t1">>)
    \/ \E rid \in Serial : MiddlewareReturn(rid)
    \/ \E rid \in Serial : Serialize(rid)
    \/ \E rid \in Serial : Finish(rid)

SpecCors == Init /\ [][NextCors]_vars

(***************************************************************************)
(* SpecCsrf: the CSRF middleware before routes for GET and POST; a first   *)
(* request, and then a second one from a client that presents a token the  *)
(* first response issued                                                   *)
(***************************************************************************)
\* the values generateCSRFToken may return
FreshTokens == {<<"t1">>, <<"t2">>}

\* what a client may send as its token: nothing, a token a server issued,
\* its HMAC, or a made-up value
ClientTokens == {NoToken, <<"fake-token">>} \cup FreshTokens \cup {Hmac(t) : t \in FreshTokens}

CsrfRequests ==
    {Request(m, S_u, "", "", "", t, NoToken) : m \in Methods, t \in ClientTokens}
    \cup {Request(m, S_u, "", "", "", NoToken, t) : m \in Methods, t \in ClientTokens}

\* the POST requests that present, in the header or in the cookie, a token
\* among the cookies of writer w
Replays(w) ==
    {Request("POST", S_u, "", "", "", w.cookies[i], NoToken) : i \in 1..Len(w.cookies)}
    \cup {Request("POST", S_u, "", "", "", NoToken, w.cookies[i]) : i \in 1..Len(w.cookies)}

NextCsrf ==
    \/ \E mw \in {"A", "csrf"} : Use(mw)
    \/ \E m \in Methods : ServerHandle(m, S_u, "ping")
    \/ \E r \in CsrfRequests : reqs[2].pc = "idle" /\ ServeBegin(1, r)
    \/ \E r \in Replays(reqs[1].c.Writer) : reqs[1].pc = "done" /\ ServeBegin(2, r)
    \/ \E rid \in ReqIds : \E fresh \in FreshTokens : Call(rid, fresh)
    \/ \E rid \in ReqIds : MiddlewareReturn(rid)
    \/ \E rid \in ReqIds : Serialize(rid)
    \/ \E rid \in ReqIds : (rid = 1 => reqs[2].pc = "idle") /\ Finish(rid)

SpecCsrf == Init /\ [][NextCsrf]_vars

(***************************************************************************)
(* SpecConcurrent: two requests served at the same time, their steps       *)
(* interleaved, behind the CSRF middleware                                 *)
(***************************************************************************)
ConcurrentRequests ==
    {Request("POST", S_u1, "", "", "", t, NoToken) : t \in {NoToken, <<"fake-token">>}}

NextConcurrent ==
    \/ Use("csrf")
    \/ ServerHandle("POST", S_uParam, "user")
    \/ \E rid \in ReqIds : \E r \in ConcurrentRequests : ServeBegin(rid, r)
    \/ \E rid \in ReqIds : \E fresh \in FreshTokens : Call(rid, fresh)
    \/ \E rid \in ReqIds : MiddlewareReturn(rid)
    \/ \E rid \in ReqIds : Serialize(rid)
    \/ \E rid \in ReqIds : Finish(rid)

SpecConcurrent == Init /\ [][NextConcurrent]_vars

(***************************************************************************)
(* SpecRegister: registrations of every kind (Use, UseIf, Handle, a group  *)
(* with its own Use and Handle) made between direct lookups and requests   *)
(* dispatched by ServeHTTP                                                 *)
(***************************************************************************)
RegisterHandlers == {"ping", "user"}

RegisterRequests == {Request("GET", S_u, "", "", "", NoToken, NoToken)}

NextRegister ==
    \/ Use("A")
    \/ UseIf(S_uStar, "C")
    \/ \E h \in RegisterHandlers : ServerHandle("GET", S_u, h)
    \/ groups = <<>> /\ NewGroup(S_g)
    \/ \E g \in 1..Len(groups) : GroupUse(g, "C")
    \/ \E g \in 1..Len(groups) : GroupHandle(g, "GET", S_u, "ping")
    \/ Lookup("GET", S_u)
    \/ \E rid \in Serial : \E r \in RegisterRequests : ServeBegin(rid, r)
    \/ \E rid \in Serial : Call(rid, <<"t1">>)
    \/ \E rid \in Serial : MiddlewareReturn(rid)
    \/ \E rid \in Serial : Serialize(rid)
    \/ \E rid \in Serial : Finish(rid)

SpecRegister == Init /\ [][NextRegister]_vars

(***************************************************************************)
(* Properties of the router (SpecRouter)                                   *)
(***************************************************************************)
\* the positions of the ':name' segments of a pattern
ParamPositions(pattern) ==
    LET rtParts == Split(pattern)
    IN  {i \in 1..Len(rtParts) : HasPrefix(rtParts[i], <<":">>)}

\* (method, path) structurally matches route rt: equal method, equal number
\* of segments, every segment that is no ':name' equal to the path's
StructMatch(rt, method, path) ==
    LET rtParts == Split(rt.Path)
        pParts  == Split(path)
    IN  /\ rt.Method = method
        /\ Len(rtParts) = Len(pParts)
        /\ \A i \in 1..Len(rtParts) :
               ~HasPrefix(rtParts[i], <<":">>) => rtParts[i] = pParts[i]

Matching(method, path) == {k \in 1..Len(routes) : StructMatch(routes[k], method, path)}

\* the earliest-registered route that matches
FirstMatching(method, path) ==
    LET ks == Matching(method, path)
    IN  CHOOSE k \in ks : \A j \in ks : k <= j

\* the pairs name -> path segment, one for each ':name' segment of the pattern
BindingPairs(pattern, path) ==
    LET rtParts == Split(pattern)
        pParts  == Split(path)
    IN  {<<Tail(rtParts[i]), pParts[i]>> : i \in ParamPositions(pattern)}

PairsOf(params) == {<<n, params.m[n]>> : n \in DOMAIN params.m}

\* C4 as stated: for every route R that (method, path) structurally matches,
\* FindHandler returns R's handler and exactly one binding per ':name' segment.
C4_EveryMatchingRoute ==
    lookup.done =>
        \A k \in Matching(lookup.method, lookup.path) :
            /\ lookup.res.Handler = routes[k].Handler
            /\ ~lookup.res.Params.isNil
            /\ PairsOf(lookup.res.Params) = BindingPairs(routes[k].Path, lookup.path)

\* C4 amended: when R is the earliest-registered route that (method, path)
\* structurally matches, FindHandler returns R's handler and a non-nil mapping
\* whose keys are exactly the names of R's ':name' segments, each bound to the
\* path segment at the last position carrying that name (one binding per
\* ':name' segment when the names are distinct).
C4_FirstMatchingRoute ==
    (lookup.done /\ Matching(lookup.method, lookup.path) # {}) =>
        LET rt  == routes[FirstMatching(lookup.method, lookup.path)]
            pos == ParamPositions(rt.Path)
            res == lookup.res
        IN  /\ res.Handler = rt.Handler
            /\ ~res.Params.isNil
            /\ DOMAIN res.Params.m = {Tail(Split(rt.Path)[i]) : i \in pos}
            /\ \A i \in pos :
                   (\A j \in pos : j > i => Split(rt.Path)[j] # Split(rt.Path)[i])
                       => res.Params.m[Tail(Split(rt.Path)[i])] = Split(lookup.path)[i]

C4_Witness ==
    /\ lookup.done
    /\ ~lookup.res.Handler.isNil
    /\ lookup.res.Params.m = [n \in {<<"i">>} |-> <<"1">>]

\* C5: a (method, path) that matches no registered route gets (nil, nil); a
\* non-nil empty mapping comes only with the handler of a matching route that
\* has no ':name' segment.
C5_NoMatchIsNilNil ==
    lookup.done =>
        /\ Matching(lookup.method, lookup.path) = {} =>
               /\ lookup.res.Handler.isNil
               /\ lookup.res.Params.isNil
        /\ (~lookup.res.Params.isNil /\ DOMAIN lookup.res.Params.m = {}) =>
               /\ Matching(lookup.method, lookup.path) # {}
               /\ ~lookup.res.Handler.isNil
               /\ ParamPositions(routes[FirstMatching(lookup.method, lookup.path)].Path) = {}

\* a lookup that fails only because the method differs
C5_Witness ==
    /\ lookup.done
    /\ lookup.res.Handler.isNil
    /\ \E k \in 1..Len(routes) :
           /\ routes[k].Method # lookup.method
           /\ routes[k].Path = lookup.path

\* C6: routes whose pattern has another number of segments than the path never
\* match: the lookup gives what it gives with those routes removed, and gives
\* no match when every route has another number of segments.
C6_SegmentCountDecides ==
    lookup.done =>
        LET SameCount(rt) == Len(Split(rt.Path)) = Len(Split(lookup.path))
        IN  /\ lookup.res = FindHandler(SelectSeq(routes, SameCount),
                                        lookup.method, lookup.path)
            /\ (\A k \in 1..Len(routes) : ~SameCount(routes[k]))
                   => lookup.res.Handler.isNil /\ lookup.res.Params.isNil

\* '/u' looked up with only '/u/' registered (and the other way round), or a
\* path with one more segment than the pattern it otherwise agrees with
C6_Witness ==
    /\ lookup.done
    /\ lookup.res.Handler.isNil
    /\ \E k \in 1..Len(routes) :
           /\ routes[k].Method = lookup.method
           /\ <<routes[k].Path, lookup.path>> \in
                  {<<S_u, S_uSlash>>, <<S_uSlash, S_u>>, <<S_uParam, S_u1X>>}

\* C7: when several registered routes match, FindHandler returns the handler
\* and the bindings of the earliest-registered one: what a router holding
\* that route alone returns.
C7_FirstRegisteredWins ==
    (lookup.done /\ Matching(lookup.method, lookup.path) # {}) =>
        lookup.res = FindHandler(<<routes[FirstMatching(lookup.method, lookup.path)]>>,
                                 lookup.method, lookup.path)

\* two matching routes with different handlers and different bindings
C7_Witness ==
    /\ lookup.done
    /\ Cardinality(Matching(lookup.method, lookup.path)) >= 2
    /\ \E j, k \in Matching(lookup.method, lookup.path) :
           /\ j < k
           /\ routes[j].Handler # routes[k].Handler
           /\ routes[j].Path # routes[k].Path

(***************************************************************************)
(* Properties of the dispatcher (Spec, SpecOrder)                          *)
(***************************************************************************)
Reverse(seq) == [i \in 1..Len(seq) |-> seq[Len(seq) + 1 - i]]

\* the layers entered, and the layers left, in order
Entered(trace) ==
    LET IsEnter(e) == e.ev = "enter"
        es == SelectSeq(trace, IsEnter)
    IN  [i \in 1..Len(es) |-> es[i].who]

Left(trace) ==
    LET IsExit(e) == e.ev = "exit"
        es == SelectSeq(trace, IsExit)
    IN  [i \in 1..Len(es) |-> es[i].who]

\* the request of slot r matches a registered route
Matched(r) == Matching(reqs[r].c.Request.Method, reqs[r].c.Request.Path) # {}

\* the route that serves the request of slot r, and how it was registered
RouteOf(r) == FirstMatching(reqs[r].c.Request.Method, reqs[r].c.Request.Path)

\* the conditional middlewares whose pattern, one trailing '*' removed, is a
\* prefix of the path
ConditionalFor(path) ==
    {i \in 1..Len(conditionalMiddleware) :
        HasPrefix(path, TrimSuffix(conditionalMiddleware[i].Pattern, <<"*">>))}

\* the middlewares that apply to the request of slot r
Applicable(r) ==
    {routes[RouteOf(r)].Handler.layers[i] :
        i \in 1..Len(routes[RouteOf(r)].Handler.layers)}
    \cup {conditionalMiddleware[i].Middleware :
             i \in ConditionalFor(reqs[r].c.Request.Path)}

\* middleware mw calls the handler it wraps when it serves request rq
CallsThrough(mw, rq) ==
    CASE mw = "auth" -> rq.Authorization # ""
      [] mw \in CorsMws -> rq.Method # "OPTIONS"
      [] mw = "csrf" -> \/ rq.Method \in CsrfSkipMethods
                        \/ rq.CsrfHeader = NoToken /\ rq.CsrfCookie = NoToken
      [] OTHER       -> TRUE

\* C1 as stated: at the end of ServeHTTP the dispatcher writes the envelope
\* if and only if the returned Response is non-nil and Handled is false; with
\* Handled true it leaves the writer as it is.
C1_EnvelopeOnlyIfNotHandled ==
    [][\A r \in ReqIds :
          (reqs[r].pc = "ret" /\ reqs[r].stack = <<>> /\ reqs'[r].pc = "done") =>
              /\ (reqs'[r].c.Writer # reqs[r].c.Writer)
                     <=> (~reqs[r].resp.isNil /\ ~reqs[r].c.Handled)
              /\ reqs[r].c.Handled => reqs'[r].c.Writer = reqs[r].c.Writer]_vars

\* C2 as stated: a request served by a route registered through Group.Handle
\* enters the global middlewares in registration order, then the group's, then
\* the handler, and leaves them in the reverse order.
C2_GlobalThenGroupThenHandler ==
    \A r \in ReqIds :
        (reqs[r].pc = "done" /\ Matched(r) /\ regLog[RouteOf(r)].via = "group") =>
            LET reg == regLog[RouteOf(r)]
            IN  /\ Entered(reqs[r].trace) = reg.globals \o reg.gmws \o <<reg.term>>
                /\ Left(reqs[r].trace) = Reverse(reg.globals \o reg.gmws \o <<reg.term>>)

\* C3: a request served by a route registered through Server.Handle enters
\* the global middlewares registered before the route in registration order,
\* then the handler, and leaves them in the reverse order.
C3_FirstRegisteredOutermost ==
    \A r \in ReqIds :
        (reqs[r].pc = "done" /\ Matched(r) /\ regLog[RouteOf(r)].via = "server") =>
            LET reg == regLog[RouteOf(r)]
            IN  /\ Entered(reqs[r].trace) = reg.globals \o <<reg.term>>
                /\ Left(reqs[r].trace) = Reverse(reg.globals \o <<reg.term>>)

\* a request served behind the globals [A, B], with a third Use after the route
C3_Witness ==
    \E r \in ReqIds :
        /\ reqs[r].pc = "done"
        /\ Matched(r)
        /\ regLog[RouteOf(r)].via = "server"
        /\ regLog[RouteOf(r)].globals = <<"A", "B">>
        /\ Entered(reqs[r].trace) = <<"A", "B", "ping">>
        /\ Left(reqs[r].trace) = <<"ping", "B", "A">>

\* C8: a request that matches no registered route is answered 404 at once:
\* ServeHTTP has returned, and no handler and no middleware was called.
C8_NoMatchIs404 ==
    \A r \in ReqIds :
        (reqs[r].pc # "idle" /\ ~Matched(r)) =>
            /\ reqs[r].pc = "done"
            /\ reqs[r].c.Writer.wroteHeader
            /\ reqs[r].c.Writer.Code = 404
            /\ reqs[r].trace = <<>>
            /\ reqs[r].stack = <<>>

\* only the method differs from a registered route, behind a global middleware
\* and a conditional middleware whose pattern matches the path
C8_Witness ==
    \E r \in ReqIds :
        /\ reqs[r].pc = "done"
        /\ ~Matched(r)
        /\ reqs[r].c.Writer.Code = 404
        /\ middlewares # <<>>
        /\ ConditionalFor(reqs[r].c.Request.Path) # {}
        /\ \E k \in 1..Len(routes) :
               /\ routes[k].Method # reqs[r].c.Request.Method
               /\ StructMatch(routes[k], routes[k].Method, reqs[r].c.Request.Path)
               /\ routes[k].Handler.layers # <<>>

\* the calls of the route's terminal handler in the trace of slot r
HandlerCalls(r) ==
    {i \in 1..Len(reqs[r].trace) :
        /\ reqs[r].trace[i].ev = "enter"
        /\ reqs[r].trace[i].who = routes[RouteOf(r)].Handler.term}

\* the request of slot r is over and every middleware applying to it calls through
ServedThrough(r) ==
    /\ reqs[r].pc = "done"
    /\ Matched(r)
    /\ \A mw \in Applicable(r) : CallsThrough(mw, reqs[r].c.Request)

\* the bindings of the route that serves the request of slot r
Bindings(r) == BindingPairs(routes[RouteOf(r)].Path, reqs[r].c.Request.Path)

\* C9 as stated: the terminal handler is invoked exactly once, with
\* Context.Params equal to the bindings the router extracted.
C9_OnceWithRouterBindings ==
    \A r \in ReqIds :
        ServedThrough(r) =>
            /\ Cardinality(HandlerCalls(r)) = 1
            /\ \A i \in HandlerCalls(r) :
                   /\ ~reqs[r].trace[i].params.isNil
                   /\ PairsOf(reqs[r].trace[i].params) = Bindings(r)

\* C9 amended: the terminal handler is invoked exactly once, with
\* Context.Params holding the bindings the router extracted and nothing else,
\* except that a CSRF middleware applying to a request whose method is not in
\* SkipMethods has added its token under ContextKey.
C9_OnceWithBindingsAndToken ==
    \A r \in ReqIds :
        ServedThrough(r) =>
            /\ Cardinality(HandlerCalls(r)) = 1
            /\ \A i \in HandlerCalls(r) :
                   LET params == reqs[r].trace[i].params
                       token  == {pr \in PairsOf(params) : pr[1] = CsrfContextKey}
                   IN  /\ ~params.isNil
                       /\ PairsOf(params) \ token = Bindings(r)
                       /\ token # {} <=>
                              /\ "csrf" \in Applicable(r)
                              /\ reqs[r].c.Request.Method \notin CsrfSkipMethods

\* GET /u/1 served by the route GET /u/:i, and a POST served behind CSRF
C9_Witness ==
    \E r \in ReqIds :
        /\ ServedThrough(r)
        /\ Applicable(r) # {}
        /\ Bindings(r) = {<< <<"i">>, <<"1">> >>}
        /\ \E i \in HandlerCalls(r) :
               PairsOf(reqs[r].trace[i].params) \ Bindings(r) # {}

\* the response a client receives: status, committed headers and body
Produced(w) == <<w.wroteHeader, w.Code, w.sent, w.Body>>

\* C10 as stated: once a write-style helper has run on a context, a later call
\* of any write-style helper leaves the status, headers and body unchanged.
C10_LaterHelperChangesNothing ==
    [][\A r \in ReqIds :
          (reqs[r].pc = "test" /\ reqs[r].trace # <<>> /\ reqs'[r].trace # reqs[r].trace) =>
              Produced(reqs'[r].c.Writer) = Produced(reqs[r].c.Writer)]_vars

(***************************************************************************)
(* Properties of Recovery (SpecPanic)                                      *)
(***************************************************************************)
\* the request of slot r reached terminal handler h through a Recovery layer
PanickedBehindRecovery(r, h) ==
    /\ reqs[r].pc \notin {"idle", "call", "test"}
    /\ \E i \in 1..Len(reqs[r].trace) :
           /\ reqs[r].trace[i].ev = "enter"
           /\ reqs[r].trace[i].who = h
           /\ \E j \in 1..(i - 1) :
                  reqs[r].trace[j].ev = "enter" /\ reqs[r].trace[j].who = "recovery"

\* ServeHTTP is over for slot r, by returning or by a panic leaving it
Over(r) == reqs[r].pc \in {"done", "crashed"}

\* the one 500 response Recovery gives for panic value v
Recovered500(rq, v) ==
    IF ContainsTextHTML(rq.Accept)
    THEN <<500, <<Text("<h1>500 Internal Server Error</h1>")>> >>
    ELSE <<500, <<EncodeJSON(Response(FALSE, "Internal Server Error", <<v>>, 500))>> >>

\* C11 as stated: a handler behind Recovery that panics before anything was
\* written gives exactly one response, the 500 with the panic value (JSON) or
\* the 500 HTML page, and nothing writes a second response.
C11_ExactlyOne500 ==
    \A r \in ReqIds :
        (Over(r) /\ PanickedBehindRecovery(r, "boom")) =>
            <<reqs[r].c.Writer.Code, reqs[r].c.Writer.Body>>
                = Recovered500(reqs[r].c.Request, "boom")

\* what the handler "partial" wrote before it panicked
PartialWritten(rq) == String(NewContext(NewRecorder, rq), 200, "partial").c.Writer

\* C12: a handler behind Recovery that panics after Handled became true has
\* its panic absorbed: Recovery returns nil and the status, headers and body
\* already written stay as they were, to the end of the request.
C12_HandledPanicWritesNothing ==
    \A r \in ReqIds :
        PanickedBehindRecovery(r, "partial") =>
            /\ reqs[r].c.Handled
            /\ Produced(reqs[r].c.Writer) = Produced(PartialWritten(reqs[r].c.Request))
            /\ (/\ reqs[r].pc = "ret"
                /\ reqs[r].trace[Len(reqs[r].trace)] = Event("exit", "recovery", reqs[r].c))
                   => reqs[r].resp.isNil

\* Recovery has just absorbed the panic of "partial" and returned nil
C12_Witness ==
    \E r \in ReqIds :
        /\ PanickedBehindRecovery(r, "partial")
        /\ reqs[r].pc = "ret"
        /\ reqs[r].trace[Len(reqs[r].trace)].who = "recovery"
        /\ reqs[r].trace[Len(reqs[r].trace)].ev = "exit"
        /\ reqs[r].resp.isNil
        /\ reqs[r].c.Writer.Body = <<Text("partial")>>

(***************************************************************************)
(* Properties of conditional middleware (SpecCond)                         *)
(***************************************************************************)
\* pattern, one trailing '*' removed if it has one, is a prefix of path
FiresFor(pattern, path) ==
    LET n == Len(pattern)
        p == IF n > 0 /\ pattern[n] = "*" THEN SubSeq(pattern, 1, n - 1) ELSE pattern
    IN  /\ Len(p) <= Len(path)
        /\ \A i \in 1..Len(p) : path[i] = p[i]

\* how many entries of seq satisfy Test
Count(seq, Test(_)) == Cardinality({i \in 1..Len(seq) : Test(seq[i])})

\* C13: for a matched request, a conditional middleware is applied if and
\* only if its pattern, one trailing '*' stripped, is a prefix of the request
\* path: each middleware is entered once for every matching registration and
\* once for every time it is in the route's own chain, and no more.
C13_AppliedIffPrefix ==
    \A r \in ReqIds :
        (reqs[r].pc = "done" /\ Matched(r)) =>
            \A mw \in Marks :
                LET IsMw(x)    == x = mw
                    Fires(cm)  == cm.Middleware = mw
                                  /\ FiresFor(cm.Pattern, reqs[r].c.Request.Path)
                IN  Count(Entered(reqs[r].trace), IsMw)
                        = Count(conditionalMiddleware, Fires)
                          + Count(routes[RouteOf(r)].Handler.layers, IsMw)

\* with "/u/*" -> A and "/*" -> B registered, a request for /g/u entered B
\* and did not enter A
C13_Witness ==
    \E r \in ReqIds :
        /\ reqs[r].pc = "done"
        /\ Matched(r)
        /\ reqs[r].c.Request.Path = S_gu
        /\ {conditionalMiddleware[i].Pattern : i \in 1..Len(conditionalMiddleware)}
               = {S_uStar, S_all}
        /\ LET entered == Entered(reqs[r].trace)
           IN  /\ \E i \in 1..Len(entered) : entered[i] = "B"
               /\ \A i \in 1..Len(entered) : entered[i] # "A"

\* the middlewares of the matching conditional registrations, in
\* registration order
RECURSIVE MatchingConditional(_, _)
MatchingConditional(i, path) ==
    IF i > Len(conditionalMiddleware)
    THEN <<>>
    ELSE (IF FiresFor(conditionalMiddleware[i].Pattern, path)
          THEN <<conditionalMiddleware[i].Middleware>>
          ELSE <<>>) \o MatchingConditional(i + 1, path)

\* C14: the matching conditional middlewares run outside every global and
\* group middleware of the route, the last-registered one outermost: they are
\* entered in reverse registration order before the route's chain and left
\* in registration order after it.
C14_LastRegisteredOutermost ==
    \A r \in ReqIds :
        (reqs[r].pc = "done" /\ Matched(r)) =>
            LET conds == MatchingConditional(1, reqs[r].c.Request.Path)
                chain == Reverse(conds) \o routes[RouteOf(r)].Handler.layers
                         \o <<routes[RouteOf(r)].Handler.term>>
            IN  /\ Entered(reqs[r].trace) = chain
                /\ Left(reqs[r].trace) = Reverse(chain)

\* two different conditional middlewares matched a route that has a chain
C14_Witness ==
    \E r \in ReqIds :
        /\ reqs[r].pc = "done"
        /\ Matched(r)
        /\ MatchingConditional(1, reqs[r].c.Request.Path) = <<"A", "B">>
        /\ routes[RouteOf(r)].Handler.layers # <<>>
        /\ Entered(reqs[r].trace)[1] = "B"
        /\ Entered(reqs[r].trace)[2] = "A"

(***************************************************************************)
(* Properties of groups (SpecGroup)                                        *)
(***************************************************************************)
\* the route registered by the k-th registration came through a group
ViaGroup(k) == regLog[k].via = "group"

\* the entries of seq that are in set, in order
Only(seq, set) ==
    LET In(x) == x \in set
    IN  SelectSeq(seq, In)

\* C15: a route registered through a group is in the shared router under
\* prefix + subpath, plainly concatenated, with the given method, and a request
\* served by it (its method and path match the concatenation, no earlier
\* route does) reaches the handler given to Group.Handle.
C15_RegisteredUnderPrefixPlusSubpath ==
    /\ Len(regLog) = Len(routes)
    /\ \A k \in 1..Len(routes) :
           ViaGroup(k) =>
               /\ routes[k].Method = regLog[k].method
               /\ routes[k].Path = groups[regLog[k].group].Prefix \o regLog[k].path
               /\ routes[k].Handler.term = regLog[k].term
    /\ \A r \in ReqIds :
           (reqs[r].pc = "done" /\ Matched(r) /\ ViaGroup(RouteOf(r))) =>
               LET reg == regLog[RouteOf(r)]
                   rq  == reqs[r].c.Request
               IN  /\ rq.Method = reg.method
                   /\ StructMatch([Method |-> reg.method,
                                   Path |-> groups[reg.group].Prefix \o reg.path],
                                  rq.Method, rq.Path)
                   /\ Cardinality(HandlerCalls(r)) = 1
                   /\ reqs[r].c.Writer.Code = 200
    /\ \A r \in ReqIds :
           (reqs[r].pc = "done" /\ ~Matched(r)) => reqs[r].trace = <<>>

\* GET /g/u was served by the route a group with prefix "/g" registered for
\* "/u", while a group with prefix "g" registered a route no request reaches
C15_Witness ==
    \E r \in ReqIds :
        /\ reqs[r].pc = "done"
        /\ Matched(r)
        /\ ViaGroup(RouteOf(r))
        /\ reqs[r].c.Request.Path = S_gu
        /\ routes[RouteOf(r)].Path = S_gu
        /\ regLog[RouteOf(r)].path = S_u
        /\ \E k \in 1..Len(routes) :
               ViaGroup(k) /\ routes[k].Path = <<"g", "/", "u">>

\* the middlewares groups pass to Use
GroupMarks == {"B", "C"}

C17_GroupMiddlewareStaysInGroup ==
    /\ \A k \in 1..Len(routes) :
           \A i \in 1..Len(routes[k].Handler.layers) :
               routes[k].Handler.layers[i] \in GroupMarks =>
                   /\ ViaGroup(k)
                   /\ routes[k].Handler.layers[i] = GroupMw(regLog[k].group)
    /\ \A r \in ReqIds :
           (reqs[r].pc # "idle" /\ Matched(r)) =>
               \A i \in 1..Len(reqs[r].trace) :
                   reqs[r].trace[i].who \in GroupMarks =>
                       /\ ViaGroup(RouteOf(r))
                       /\ reqs[r].trace[i].who = GroupMw(regLog[RouteOf(r)].group)

\* two groups with the same prefix, each with its middleware; a request was
\* served by a route of the one and the other's middleware did not run; a
\* route registered on the server exists as well
C17_Witness ==
    \E r \in ReqIds :
        /\ reqs[r].pc = "done"
        /\ Matched(r)
        /\ ViaGroup(RouteOf(r))
        /\ Len(groups) = Len(GroupsCreated)
        /\ \A g \in 1..Len(groups) :
               groups[g].Prefix = S_g /\ groups[g].Middlewares # <<>>
        /\ Only(Entered(reqs[r].trace), GroupMarks)
               = <<GroupMw(regLog[RouteOf(r)].group)>>
        /\ \E k \in 1..Len(routes) : regLog[k].group # regLog[RouteOf(r)].group

(***************************************************************************)
(* Properties of Server.Use (SpecOrder)                                    *)
(***************************************************************************)
\* C18: a middleware registered with Server.Use runs on every request
\* ServeHTTP serves with a matched route, before the route's handler: the
\* request enters every middleware of the server's list, and no layer has
\* returned before it does.
C18_RunsOnEveryRequest ==
    \A r \in ReqIds :
        (reqs[r].pc = "done" /\ Matched(r)) =>
            \A i \in 1..Len(middlewares) :
                \E j \in 1..Len(reqs[r].trace) :
                    /\ reqs[r].trace[j].ev = "enter"
                    /\ reqs[r].trace[j].who = middlewares[i]
                    /\ \A k \in 1..j : reqs[r].trace[k].ev = "enter"

(***************************************************************************)
(* Properties of Context.Params (SpecParams)                               *)
(***************************************************************************)
\* ServeHTTP is serving the request of slot r: the context exists and the
\* composed handler has not yet returned to the end of ServeHTTP
InFlight(r) == reqs[r].pc \in {"call", "ret", "panic"}

\* the step enters the CSRF middleware for a request whose method is not in
\* SkipMethods
CsrfStep(r) ==
    /\ reqs[r].pc = "call"
    /\ reqs[r].todo.layers # <<>>
    /\ Head(reqs[r].todo.layers) = "csrf"
    /\ reqs[r].c.Request.Method \notin CsrfSkipMethods

\* the entries of params other than the CSRF token's
RouterPairs(params) == {pr \in PairsOf(params) : pr[1] # CsrfContextKey}

\* C19 as stated: Context.Params is populated once, by the dispatcher from
\* the router's match result, and no step of the dispatcher or of a built-in
\* middleware (Logger, Recovery, Profiling, CORS, CSRF) changes it afterwards.
C19_ParamsReadOnly ==
    [][\A r \in ReqIds :
           /\ (reqs[r].pc = "idle" /\ reqs'[r].pc = "call") =>
                  PairsOf(reqs'[r].c.Params) =
                      BindingPairs(routes[FirstMatching(reqs'[r].c.Request.Method,
                                                        reqs'[r].c.Request.Path)].Path,
                                   reqs'[r].c.Request.Path)
           /\ InFlight(r) => reqs'[r].c.Params = reqs[r].c.Params]_vars

\* C19 amended: Context.Params is populated by the dispatcher from the
\* router's match result; afterwards no dispatcher step and none of Logger,
\* Recovery, Profiling and CORS changes it, and the CSRF middleware, for a
\* request whose method is not in SkipMethods, sets the entry ContextKey to
\* the token and leaves every other entry as the router bound it.
C19_OnlyCsrfSetsItsToken ==
    [][\A r \in ReqIds :
           /\ (reqs[r].pc = "idle" /\ reqs'[r].pc = "call") =>
                  PairsOf(reqs'[r].c.Params) =
                      BindingPairs(routes[FirstMatching(reqs'[r].c.Request.Method,
                                                        reqs'[r].c.Request.Path)].Path,
                                   reqs'[r].c.Request.Path)
           /\ InFlight(r) =>
                  IF CsrfStep(r)
                  THEN /\ ~reqs'[r].c.Params.isNil
                       /\ RouterPairs(reqs'[r].c.Params) = RouterPairs(reqs[r].c.Params)
                       /\ CsrfContextKey \in DOMAIN reqs'[r].c.Params.m
                  ELSE reqs'[r].c.Params = reqs[r].c.Params]_vars

\* a POST served behind Logger and CSRF: the handler was called with the
\* router's binding and the token, and Logger has returned
C19_Witness ==
    \E r \in ReqIds :
        /\ reqs[r].pc = "done"
        /\ Entered(reqs[r].trace) = <<"logger", "csrf", "user">>
        /\ Left(reqs[r].trace) = <<"user", "csrf", "logger">>
        /\ RouterPairs(reqs[r].c.Params) = {<< <<"i">>, <<"1">> >>}
        /\ PairsOf(reqs[r].c.Params) # RouterPairs(reqs[r].c.Params)

(***************************************************************************)
(* Properties of the binders (SpecBind)                                    *)
(***************************************************************************)
\* the test of slot r has called binder fn
Called(r, fn) ==
    /\ reqs[r].pc = "test"
    /\ reqs[r].trace # <<>>
    /\ reqs[r].trace[1].ev = "bind"
    /\ reqs[r].trace[1].who = fn

\* the writer holds one 400 response with the JSON envelope of a failure
Wrote400(w) ==
    /\ w.wroteHeader
    /\ w.Code = 400
    /\ w.sent.header["Content-Type"] = "application/json"
    /\ Len(w.Body) = 1
    /\ w.Body[1][1] = <<"success", "false">>

\* C20: when the binding fails, Bind, BindJSON and BindXML have written a
\* 400 response and return the error, and ShouldBind, ShouldBindJSON,
\* ShouldBindXML, ShouldBindForm and ShouldBindMultipart return the error
\* with the writer and Handled as they were; when the binding succeeds no
\* binder has written anything.
C20_AutoRespondsSilentDoesNot ==
    \A r \in ReqIds : \A fn \in AutoBinders \cup SilentBinders :
        Called(r, fn) =>
            IF reqs[r].err = ""
            THEN reqs[r].c.Writer = NewRecorder /\ ~reqs[r].c.Handled
            ELSE IF fn \in AutoBinders
                 THEN Wrote400(reqs[r].c.Writer)
                 ELSE reqs[r].c.Writer = NewRecorder /\ ~reqs[r].c.Handled

\* BindXML on a malformed XML body sent as application/xml returned the
\* decoder's error and answered 400
C20_Witness ==
    \E r \in ReqIds :
        /\ Called(r, "BindXML")
        /\ reqs[r].c.Request.ContentType = "application/xml"
        /\ reqs[r].err = Unmarshal("xml", B_xmlBad)
        /\ reqs[r].err # ""
        /\ Wrote400(reqs[r].c.Writer)

(***************************************************************************)
(* Properties of a nil Response (SpecParams)                               *)
(***************************************************************************)
\* C21: when the handler, or an inner middleware such as Recovery after a
\* panic, returns nil, every enclosing built-in middleware returns that nil
\* to its caller without failing and without writing, and the dispatcher
\* then writes nothing.
C21_NilReturnedThrough ==
    [][\A r \in ReqIds :
           (reqs[r].pc = "ret" /\ reqs[r].resp.isNil) =>
               /\ reqs'[r].pc = IF reqs[r].stack = <<>> THEN "done" ELSE "ret"
               /\ reqs'[r].resp.isNil
               /\ reqs'[r].c.Writer = reqs[r].c.Writer]_vars

(***************************************************************************)
(* Properties of Handled (SpecHelpers)                                     *)
(***************************************************************************)
\* a status line or a body byte was committed to writer w
Committed(w) == w.wroteHeader \/ w.Body # <<>>

\* C22: whenever a helper has committed a status line or a body byte to the
\* writer of a context, Handled is true on that context.
C22_CommittedImpliesHandled ==
    \A r \in ReqIds :
        (reqs[r].pc = "test" /\ Committed(reqs[r].c.Writer)) => reqs[r].c.Handled

(***************************************************************************)
(* Properties of the CORS middleware (SpecCors)                            *)
(***************************************************************************)
\* the step calls the outermost layer not yet entered, a CORS middleware
CorsStep(r) ==
    /\ reqs[r].pc = "call"
    /\ reqs[r].todo.layers # <<>>
    /\ Head(reqs[r].todo.layers) \in CorsMws

\* C23: on OPTIONS the CORS middleware does not call the next handler, writes
\* status 204, sets Handled and returns a Response with code 204; on any
\* other method it calls the next handler, once, and returns what the next
\* handler returned.
C23_PreflightStopsTheChain ==
    [][\A r \in ReqIds :
           /\ CorsStep(r) =>
                  IF reqs[r].c.Request.Method = "OPTIONS"
                  THEN /\ reqs'[r].pc = "ret"
                       /\ reqs'[r].stack = reqs[r].stack
                       /\ Len(Entered(reqs'[r].trace)) = Len(Entered(reqs[r].trace)) + 1
                       /\ reqs'[r].c.Writer.wroteHeader
                       /\ reqs'[r].c.Writer.Code = 204
                       /\ reqs'[r].c.Handled
                       /\ ~reqs'[r].resp.isNil
                       /\ reqs'[r].resp.Code = 204
                  ELSE /\ reqs'[r].pc = "call"
                       /\ reqs'[r].stack = <<Head(reqs[r].todo.layers)>> \o reqs[r].stack
                       /\ reqs'[r].todo.layers = Tail(reqs[r].todo.layers)
           /\ (reqs[r].pc = "ret" /\ reqs[r].stack # <<>> /\ Head(reqs[r].stack) \in CorsMws) =>
                  /\ reqs'[r].pc = "ret"
                  /\ reqs'[r].resp = reqs[r].resp
                  /\ reqs'[r].stack = Tail(reqs[r].stack)
           /\ (reqs[r].pc = "ret" /\ reqs'[r].pc = "done") =>
                  \A i, j \in 1..Len(reqs[r].trace) :
                      (/\ reqs[r].trace[i].ev = "enter" /\ reqs[r].trace[j].ev = "enter"
                       /\ reqs[r].trace[i].who = "ping" /\ reqs[r].trace[j].who = "ping")
                          => i = j]_vars

\* an OPTIONS request answered 204 by the CORS middleware, the route's
\* handler never entered
C23_Witness ==
    \E r \in ReqIds :
        /\ reqs[r].pc = "done"
        /\ reqs[r].c.Request.Method = "OPTIONS"
        /\ Entered(reqs[r].trace) = <<"cors">>
        /\ reqs[r].c.Writer.Code = 204
        /\ reqs[r].c.Handled

\* C24: the CORS middleware sets Access-Control-Allow-Origin to the request's
\* Origin only when the Origin is non-empty and AllowOrigins holds "*" or an
\* entry equal to it ignoring case; for any other origin it leaves the header
\* as it found it.
C24_OnlyAllowedOriginEchoed ==
    [][\A r \in ReqIds :
           CorsStep(r) =>
               LET cfg    == CorsDefaults(CorsConfig(Head(reqs[r].todo.layers)))
                   origin == reqs[r].c.Request.Origin
                   listed == \E o \in {cfg.AllowOrigins[i] : i \in 1..Len(cfg.AllowOrigins)} :
                                 o = "*" \/ ToLower(o) = ToLower(origin)
               IN  reqs'[r].c.Writer.header["Access-Control-Allow-Origin"] =
                       IF origin # "" /\ listed
                       THEN origin
                       ELSE reqs[r].c.Writer.header["Access-Control-Allow-Origin"]]_vars

\* behind the middleware of the one allowed origin, a request from the
\* disallowed origin was served with no Access-Control-Allow-Origin, and the
\* other CORS headers set
C24_Witness ==
    \E r \in ReqIds :
        /\ reqs[r].pc = "done"
        /\ Entered(reqs[r].trace) = <<"corsAllowedOnly", "ping">>
        /\ reqs[r].c.Request.Origin = "https://disallowed.com"
        /\ reqs[r].c.Writer.header["Access-Control-Allow-Origin"] = ""
        /\ reqs[r].c.Writer.header["Access-Control-Allow-Credentials"] = "true"

(***************************************************************************)
(* Properties of the CSRF middleware (SpecCsrf)                            *)
(***************************************************************************)
\* the client token of request rq: the header, or else the cookie
ClientToken(rq) == IF rq.CsrfHeader # NoToken THEN rq.CsrfHeader ELSE rq.CsrfCookie

\* the step calls the outermost layer not yet entered, the CSRF middleware
CsrfCalled(r) ==
    /\ reqs[r].pc = "call"
    /\ reqs[r].todo.layers # <<>>
    /\ Head(reqs[r].todo.layers) = "csrf"

\* the step called the next handler of the layer it entered
NextCalled(r) ==
    /\ reqs'[r].pc = "call"
    /\ reqs'[r].stack = <<Head(reqs[r].todo.layers)>> \o reqs[r].stack
    /\ reqs'[r].todo.layers = Tail(reqs[r].todo.layers)

\* C25: for a method not in SkipMethods and a client token that does not
\* validate against the server token, the CSRF middleware does not call the
\* next handler and returns a response with code 403; for a method in
\* SkipMethods it calls the next handler with no token check, leaving the
\* context as it was.
C25_InvalidTokenIs403 ==
    [][\A r \in ReqIds :
           CsrfCalled(r) =>
               LET rq == reqs[r].c.Request
               IN  IF rq.Method \in CsrfSkipMethods
                   THEN NextCalled(r) /\ reqs'[r].c = reqs[r].c
                   ELSE (/\ ClientToken(rq) # NoToken
                         /\ Hmac(reqs'[r].c.Params.m[CsrfContextKey]) # ClientToken(rq))
                            => /\ reqs'[r].pc = "ret"
                               /\ reqs'[r].stack = reqs[r].stack
                               /\ ~reqs'[r].resp.isNil
                               /\ reqs'[r].resp.Code = 403
                               /\ reqs'[r].resp.Message = "invalid CSRF token"]_vars

\* a POST with a made-up token was answered 403 and the handler not entered
C25_Witness ==
    \E r \in ReqIds :
        /\ reqs[r].pc = "done"
        /\ reqs[r].c.Request.Method = "POST"
        /\ ClientToken(reqs[r].c.Request) = <<"fake-token">>
        /\ Entered(reqs[r].trace) = <<"csrf">>
        /\ reqs[r].c.Writer.Code = 403

\* C26: for a method not in SkipMethods and no client token, the CSRF
\* middleware leaves a token in Context.Params under ContextKey, sets a
\* cookie with that value and calls the next handler; and a second
\* getOrCreateCSRFToken on a context returns the token of the first.
C26_TokenIssuedAndCached ==
    [][\A r \in ReqIds :
           /\ (/\ CsrfCalled(r)
               /\ reqs[r].c.Request.Method \notin CsrfSkipMethods
               /\ ClientToken(reqs[r].c.Request) = NoToken) =>
                  /\ NextCalled(r)
                  /\ CsrfContextKey \in DOMAIN reqs'[r].c.Params.m
                  /\ reqs'[r].c.Params.m[CsrfContextKey] \in FreshTokens
                  /\ reqs'[r].c.Writer.cookies =
                         Append(reqs[r].c.Writer.cookies, reqs'[r].c.Params.m[CsrfContextKey])
           /\ (reqs[r].pc = "call" /\ ~reqs[r].c.Params.isNil) =>
                  \A f1, f2 \in FreshTokens :
                      LET first == getOrCreateCSRFToken(reqs[r].c, f1)
                      IN  getOrCreateCSRFToken(first.c, f2).token = first.token]_vars

\* a POST without a token was served: the handler ran once, the token is in
\* Params and in the cookie
C26_Witness ==
    \E r \in ReqIds :
        /\ reqs[r].pc = "done"
        /\ reqs[r].c.Request.Method = "POST"
        /\ ClientToken(reqs[r].c.Request) = NoToken
        /\ Entered(reqs[r].trace) = <<"csrf", "ping">>
        /\ reqs[r].c.Writer.cookies = <<reqs[r].c.Params.m[CsrfContextKey]>>

\* C27: a token the CSRF middleware issued on one request, presented back in
\* the header or the cookie of a later POST, is accepted: the route's handler
\* is called and no 403 is returned.
C27_IssuedTokenAccepted ==
    (/\ reqs[1].pc = "done"
     /\ reqs[2].pc = "done"
     /\ Matched(2)
     /\ "csrf" \in Applicable(2)
     /\ \E i \in 1..Len(reqs[1].c.Writer.cookies) :
            reqs[1].c.Writer.cookies[i] = ClientToken(reqs[2].c.Request))
        => /\ "ping" \in {reqs[2].trace[i].who : i \in 1..Len(reqs[2].trace)}
           /\ reqs[2].c.Writer.Code # 403

(***************************************************************************)
(* Properties of Context.File (SpecHelpers)                                *)
(***************************************************************************)
\* C28: File called with a path that cannot be read writes status 404, sets
\* Handled and returns a Response saying "File not found" with code 404;
\* called when Handled is already true it writes nothing.
C28_MissingFileWrites404 ==
    [][\A r \in ReqIds :
           (/\ reqs[r].pc = "test"
            /\ Len(reqs'[r].trace) = Len(reqs[r].trace) + 1
            /\ reqs'[r].trace[Len(reqs'[r].trace)].who = "FileMissing") =>
               IF reqs[r].c.Handled
               THEN reqs'[r].c.Writer = reqs[r].c.Writer
               ELSE /\ reqs'[r].c.Writer.wroteHeader
                    /\ reqs'[r].c.Writer.Code = 404
                    /\ reqs'[r].c.Handled
                    /\ File(reqs[r].c, FALSE, "").resp.Message = "File not found"
                    /\ File(reqs[r].c, FALSE, "").resp.Code = 404]_vars

(***************************************************************************)
(* Properties of concurrent requests (SpecConcurrent)                      *)
(***************************************************************************)
\* C29: a step of the dispatch of one request, such as setting Handled or
\* writing a Params entry, changes nothing of any other request in flight:
\* neither its Handled flag, nor its Params, nor its response.
C29_RequestsDoNotInterfere ==
    [][\A r, other \in ReqIds :
           (r # other /\ reqs[r].pc # "idle" /\ reqs'[r] # reqs[r]) =>
               /\ reqs'[other].c.Handled = reqs[other].c.Handled
               /\ reqs'[other].c.Params = reqs[other].c.Params
               /\ reqs'[other].c.Writer = reqs[other].c.Writer
               /\ reqs'[other].resp = reqs[other].resp]_vars

\* two POSTs in flight at once behind CSRF, each holding the router's binding
\* and a token of its own, one of them already answered
C29_Witness ==
    /\ reqs[1].pc = "call"
    /\ reqs[2].pc = "ret"
    /\ reqs[2].c.Handled
    /\ ~reqs[1].c.Handled
    /\ reqs[1].c.Params.ref # reqs[2].c.Params.ref
    /\ PairsOf(reqs[1].c.Params) = {<< <<"i">>, <<"1">> >>, <<CsrfContextKey, <<"t1">> >>}
    /\ PairsOf(reqs[2].c.Params) = {<< <<"i">>, <<"1">> >>, <<CsrfContextKey, <<"t2">> >>}

(***************************************************************************)
(* Properties of registration (SpecRegister)                               *)
(***************************************************************************)
\* the list old with at most one element added at its end
Extends(old, new) ==
    /\ Len(new) \in {Len(old), Len(old) + 1}
    /\ \A i \in 1..Len(old) : new[i] = old[i]

\* C30: registration only appends and dispatch only reads: across every step
\* each route, global middleware, conditional middleware and group middleware
\* keeps its position and content and none is removed, and a step of
\* FindHandler or of ServeHTTP leaves the route list, the global middleware
\* list and the conditional middleware list as they were.
C30_AppendOnlyReadOnlyDispatch ==
    [][/\ Extends(routes, routes')
       /\ Extends(middlewares, middlewares')
       /\ Extends(conditionalMiddleware, conditionalMiddleware')
       /\ Len(groups') >= Len(groups)
       /\ \A g \in 1..Len(groups) :
              /\ groups'[g].Prefix = groups[g].Prefix
              /\ Extends(groups[g].Middlewares, groups'[g].Middlewares)
       /\ (reqs' # reqs \/ lookup' # lookup) =>
              /\ routes' = routes
              /\ middlewares' = middlewares
              /\ conditionalMiddleware' = conditionalMiddleware]_vars

\* two routes with the same method and path, two global middlewares, a
\* conditional middleware and a group middleware, all registered, after a
\* direct lookup and a request served through them
C30_Witness ==
    /\ Len(routes) = 2
    /\ routes[1].Method = routes[2].Method
    /\ routes[1].Path = routes[2].Path
    /\ routes[1].Handler # routes[2].Handler
    /\ Len(middlewares) = 2
    /\ Len(conditionalMiddleware) = 2
    /\ \E g \in 1..Len(groups) : groups[g].Middlewares # <<>>
    /\ lookup.done
    /\ ~lookup.res.Handler.isNil
    /\ reqs[1].pc = "done"
    /\ Matched(1)

====
